---------------------------- MODULE Spec2Model ----------------------------
(***************************************************************************)
(* The aezeed cipher-seed decoder of btcrecover (src/btcrecover/aezeed.py): *)
(* the mnemonic codec, CRC32C, the AEZ v5 primitives (AES4/AES10 round      *)
(* core, AEZ-hash, AEZ-PRF, aez-tiny, aez-core) and the decrypt driver.     *)
(*                                                                         *)
(* Representation.  A byte string is a sequence of naturals in 0..255; the *)
(* Python index k is the sequence index k+1.  A 32-bit word is the         *)
(* sequence of its four bytes, most significant first, so that every XOR,  *)
(* shift and mask of the source is computed bytewise and exactly.          *)
(***************************************************************************)
EXTENDS Integers, Sequences, FiniteSets, TLC

(***************************************************************************)
(* Bit arithmetic on naturals.                                             *)
(***************************************************************************)
RECURSIVE BitXor(_, _)
BitXor(a, b) ==
    IF a = 0 THEN b
    ELSE IF b = 0 THEN a
    ELSE ((a + b) % 2) + 2 * BitXor(a \div 2, b \div 2)

RECURSIVE BitAnd(_, _)
BitAnd(a, b) ==
    IF a = 0 \/ b = 0 THEN 0
    ELSE ((a % 2) * (b % 2)) + 2 * BitAnd(a \div 2, b \div 2)

BitOr(a, b) == a + b - BitAnd(a, b)

RECURSIVE Pow2(_)
Pow2(n) == IF n = 0 THEN 1 ELSE 2 * Pow2(n - 1)

\* The function f on 1..n as a sequence whose n values are computed once.
Bytes(f, n) == SubSeq(f, 1, n)

\* Body applied to the value of v: a local that is assigned once and read
\* several times is computed once.
With(v, Body(_)) == CHOOSE r \in {Body(x) : x \in {v}} : TRUE

\* XorTable[a + 1][b + 1] is a XOR b for bytes a and b.
XorTable ==
    Bytes([a \in 1..256 |-> Bytes([b \in 1..256 |-> BitXor(a - 1, b - 1)], 256)], 256)

Xor8(a, b) == XorTable[a + 1][b + 1]

uint8(i) == i % 256

Min(a, b) == IF a < b THEN a ELSE b

Max(a, b) == IF a > b THEN a ELSE b

(***************************************************************************)
(* Python sequence operations: s[a:b], s[a:b] = src (which may resize s),  *)
(* and bytes(n) / bytearray(n).                                            *)
(***************************************************************************)
Zeros(n) == Bytes([i \in 1..n |-> 0], n)

Slice(s, a, b) ==
    LET lo == Min(a, Len(s))
        hi == Min(b, Len(s))
    IN  IF hi <= lo THEN <<>> ELSE SubSeq(s, lo + 1, hi)

SliceAssign(dst, a, b, src) ==
    LET lo == Min(a, Len(dst))
        hi == Max(lo, Min(b, Len(dst)))
    IN  SubSeq(dst, 1, lo) \o src \o SubSeq(dst, hi + 1, Len(dst))

\* Python's None, kept apart from every byte string (b"" is <<>>).
None == <<-1>>

(***************************************************************************)
(* Block primitives.                                                       *)
(***************************************************************************)
BLOCK_SIZE == 16

EXTRACTED_KEY_SIZE == 48

mk_block == Zeros(BLOCK_SIZE)

ZERO_BLOCK == mk_block

xor_bytes1x16(a, b) == Bytes([i \in 1..BLOCK_SIZE |-> Xor8(a[i], b[i])], BLOCK_SIZE)

xor_bytes4x16(a, b, c, d) ==
    Bytes([i \in 1..BLOCK_SIZE |-> Xor8(Xor8(Xor8(a[i], b[i]), c[i]), d[i])],
          BLOCK_SIZE)

double_block(p) ==
    Bytes([i \in 1..BLOCK_SIZE |->
              IF i < BLOCK_SIZE
              THEN ((p[i] * 2) + (p[i + 1] \div 128)) % 256
              ELSE Xor8((p[BLOCK_SIZE] * 2) % 256, IF p[1] >= 128 THEN 135 ELSE 0)],
          BLOCK_SIZE)

RECURSIVE mult_loop(_, _, _)
mult_loop(x, t, r) ==
    IF x = 0 THEN r
    ELSE mult_loop(x \div 2, double_block(t),
                   IF x % 2 = 1 THEN xor_bytes1x16(r, t) ELSE r)

mult_block(x, src) == mult_loop(x, src, mk_block)

one_zero_pad(src, size) ==
    Bytes([i \in 1..BLOCK_SIZE |->
              IF i <= size THEN src[i] ELSE IF i = size + 1 THEN 128 ELSE 0],
          BLOCK_SIZE)

(***************************************************************************)
(* The AES T-tables, as the source spells them out.                        *)
(***************************************************************************)
TE0 == <<
    <<198,99,99,165>>, <<248,124,124,132>>, <<238,119,119,153>>, <<246,123,123,141>>,
    <<255,242,242,13>>, <<214,107,107,189>>, <<222,111,111,177>>, <<145,197,197,84>>,
    <<96,48,48,80>>, <<2,1,1,3>>, <<206,103,103,169>>, <<86,43,43,125>>,
    <<231,254,254,25>>, <<181,215,215,98>>, <<77,171,171,230>>, <<236,118,118,154>>,
    <<143,202,202,69>>, <<31,130,130,157>>, <<137,201,201,64>>, <<250,125,125,135>>,
    <<239,250,250,21>>, <<178,89,89,235>>, <<142,71,71,201>>, <<251,240,240,11>>,
    <<65,173,173,236>>, <<179,212,212,103>>, <<95,162,162,253>>, <<69,175,175,234>>,
    <<35,156,156,191>>, <<83,164,164,247>>, <<228,114,114,150>>, <<155,192,192,91>>,
    <<117,183,183,194>>, <<225,253,253,28>>, <<61,147,147,174>>, <<76,38,38,106>>,
    <<108,54,54,90>>, <<126,63,63,65>>, <<245,247,247,2>>, <<131,204,204,79>>,
    <<104,52,52,92>>, <<81,165,165,244>>, <<209,229,229,52>>, <<249,241,241,8>>,
    <<226,113,113,147>>, <<171,216,216,115>>, <<98,49,49,83>>, <<42,21,21,63>>,
    <<8,4,4,12>>, <<149,199,199,82>>, <<70,35,35,101>>, <<157,195,195,94>>,
    <<48,24,24,40>>, <<55,150,150,161>>, <<10,5,5,15>>, <<47,154,154,181>>,
    <<14,7,7,9>>, <<36,18,18,54>>, <<27,128,128,155>>, <<223,226,226,61>>,
    <<205,235,235,38>>, <<78,39,39,105>>, <<127,178,178,205>>, <<234,117,117,159>>,
    <<18,9,9,27>>, <<29,131,131,158>>, <<88,44,44,116>>, <<52,26,26,46>>,
    <<54,27,27,45>>, <<220,110,110,178>>, <<180,90,90,238>>, <<91,160,160,251>>,
    <<164,82,82,246>>, <<118,59,59,77>>, <<183,214,214,97>>, <<125,179,179,206>>,
    <<82,41,41,123>>, <<221,227,227,62>>, <<94,47,47,113>>, <<19,132,132,151>>,
    <<166,83,83,245>>, <<185,209,209,104>>, <<0,0,0,0>>, <<193,237,237,44>>,
    <<64,32,32,96>>, <<227,252,252,31>>, <<121,177,177,200>>, <<182,91,91,237>>,
    <<212,106,106,190>>, <<141,203,203,70>>, <<103,190,190,217>>, <<114,57,57,75>>,
    <<148,74,74,222>>, <<152,76,76,212>>, <<176,88,88,232>>, <<133,207,207,74>>,
    <<187,208,208,107>>, <<197,239,239,42>>, <<79,170,170,229>>, <<237,251,251,22>>,
    <<134,67,67,197>>, <<154,77,77,215>>, <<102,51,51,85>>, <<17,133,133,148>>,
    <<138,69,69,207>>, <<233,249,249,16>>, <<4,2,2,6>>, <<254,127,127,129>>,
    <<160,80,80,240>>, <<120,60,60,68>>, <<37,159,159,186>>, <<75,168,168,227>>,
    <<162,81,81,243>>, <<93,163,163,254>>, <<128,64,64,192>>, <<5,143,143,138>>,
    <<63,146,146,173>>, <<33,157,157,188>>, <<112,56,56,72>>, <<241,245,245,4>>,
    <<99,188,188,223>>, <<119,182,182,193>>, <<175,218,218,117>>, <<66,33,33,99>>,
    <<32,16,16,48>>, <<229,255,255,26>>, <<253,243,243,14>>, <<191,210,210,109>>,
    <<129,205,205,76>>, <<24,12,12,20>>, <<38,19,19,53>>, <<195,236,236,47>>,
    <<190,95,95,225>>, <<53,151,151,162>>, <<136,68,68,204>>, <<46,23,23,57>>,
    <<147,196,196,87>>, <<85,167,167,242>>, <<252,126,126,130>>, <<122,61,61,71>>,
    <<200,100,100,172>>, <<186,93,93,231>>, <<50,25,25,43>>, <<230,115,115,149>>,
    <<192,96,96,160>>, <<25,129,129,152>>, <<158,79,79,209>>, <<163,220,220,127>>,
    <<68,34,34,102>>, <<84,42,42,126>>, <<59,144,144,171>>, <<11,136,136,131>>,
    <<140,70,70,202>>, <<199,238,238,41>>, <<107,184,184,211>>, <<40,20,20,60>>,
    <<167,222,222,121>>, <<188,94,94,226>>, <<22,11,11,29>>, <<173,219,219,118>>,
    <<219,224,224,59>>, <<100,50,50,86>>, <<116,58,58,78>>, <<20,10,10,30>>,
    <<146,73,73,219>>, <<12,6,6,10>>, <<72,36,36,108>>, <<184,92,92,228>>,
    <<159,194,194,93>>, <<189,211,211,110>>, <<67,172,172,239>>, <<196,98,98,166>>,
    <<57,145,145,168>>, <<49,149,149,164>>, <<211,228,228,55>>, <<242,121,121,139>>,
    <<213,231,231,50>>, <<139,200,200,67>>, <<110,55,55,89>>, <<218,109,109,183>>,
    <<1,141,141,140>>, <<177,213,213,100>>, <<156,78,78,210>>, <<73,169,169,224>>,
    <<216,108,108,180>>, <<172,86,86,250>>, <<243,244,244,7>>, <<207,234,234,37>>,
    <<202,101,101,175>>, <<244,122,122,142>>, <<71,174,174,233>>, <<16,8,8,24>>,
    <<111,186,186,213>>, <<240,120,120,136>>, <<74,37,37,111>>, <<92,46,46,114>>,
    <<56,28,28,36>>, <<87,166,166,241>>, <<115,180,180,199>>, <<151,198,198,81>>,
    <<203,232,232,35>>, <<161,221,221,124>>, <<232,116,116,156>>, <<62,31,31,33>>,
    <<150,75,75,221>>, <<97,189,189,220>>, <<13,139,139,134>>, <<15,138,138,133>>,
    <<224,112,112,144>>, <<124,62,62,66>>, <<113,181,181,196>>, <<204,102,102,170>>,
    <<144,72,72,216>>, <<6,3,3,5>>, <<247,246,246,1>>, <<28,14,14,18>>,
    <<194,97,97,163>>, <<106,53,53,95>>, <<174,87,87,249>>, <<105,185,185,208>>,
    <<23,134,134,145>>, <<153,193,193,88>>, <<58,29,29,39>>, <<39,158,158,185>>,
    <<217,225,225,56>>, <<235,248,248,19>>, <<43,152,152,179>>, <<34,17,17,51>>,
    <<210,105,105,187>>, <<169,217,217,112>>, <<7,142,142,137>>, <<51,148,148,167>>,
    <<45,155,155,182>>, <<60,30,30,34>>, <<21,135,135,146>>, <<201,233,233,32>>,
    <<135,206,206,73>>, <<170,85,85,255>>, <<80,40,40,120>>, <<165,223,223,122>>,
    <<3,140,140,143>>, <<89,161,161,248>>, <<9,137,137,128>>, <<26,13,13,23>>,
    <<101,191,191,218>>, <<215,230,230,49>>, <<132,66,66,198>>, <<208,104,104,184>>,
    <<130,65,65,195>>, <<41,153,153,176>>, <<90,45,45,119>>, <<30,15,15,17>>,
    <<123,176,176,203>>, <<168,84,84,252>>, <<109,187,187,214>>, <<44,22,22,58>>
  >>

TE1 == <<
    <<165,198,99,99>>, <<132,248,124,124>>, <<153,238,119,119>>, <<141,246,123,123>>,
    <<13,255,242,242>>, <<189,214,107,107>>, <<177,222,111,111>>, <<84,145,197,197>>,
    <<80,96,48,48>>, <<3,2,1,1>>, <<169,206,103,103>>, <<125,86,43,43>>,
    <<25,231,254,254>>, <<98,181,215,215>>, <<230,77,171,171>>, <<154,236,118,118>>,
    <<69,143,202,202>>, <<157,31,130,130>>, <<64,137,201,201>>, <<135,250,125,125>>,
    <<21,239,250,250>>, <<235,178,89,89>>, <<201,142,71,71>>, <<11,251,240,240>>,
    <<236,65,173,173>>, <<103,179,212,212>>, <<253,95,162,162>>, <<234,69,175,175>>,
    <<191,35,156,156>>, <<247,83,164,164>>, <<150,228,114,114>>, <<91,155,192,192>>,
    <<194,117,183,183>>, <<28,225,253,253>>, <<174,61,147,147>>, <<106,76,38,38>>,
    <<90,108,54,54>>, <<65,126,63,63>>, <<2,245,247,247>>, <<79,131,204,204>>,
    <<92,104,52,52>>, <<244,81,165,165>>, <<52,209,229,229>>, <<8,249,241,241>>,
    <<147,226,113,113>>, <<115,171,216,216>>, <<83,98,49,49>>, <<63,42,21,21>>,
    <<12,8,4,4>>, <<82,149,199,199>>, <<101,70,35,35>>, <<94,157,195,195>>,
    <<40,48,24,24>>, <<161,55,150,150>>, <<15,10,5,5>>, <<181,47,154,154>>,
    <<9,14,7,7>>, <<54,36,18,18>>, <<155,27,128,128>>, <<61,223,226,226>>,
    <<38,205,235,235>>, <<105,78,39,39>>, <<205,127,178,178>>, <<159,234,117,117>>,
    <<27,18,9,9>>, <<158,29,131,131>>, <<116,88,44,44>>, <<46,52,26,26>>,
    <<45,54,27,27>>, <<178,220,110,110>>, <<238,180,90,90>>, <<251,91,160,160>>,
    <<246,164,82,82>>, <<77,118,59,59>>, <<97,183,214,214>>, <<206,125,179,179>>,
    <<123,82,41,41>>, <<62,221,227,227>>, <<113,94,47,47>>, <<151,19,132,132>>,
    <<245,166,83,83>>, <<104,185,209,209>>, <<0,0,0,0>>, <<44,193,237,237>>,
    <<96,64,32,32>>, <<31,227,252,252>>, <<200,121,177,177>>, <<237,182,91,91>>,
    <<190,212,106,106>>, <<70,141,203,203>>, <<217,103,190,190>>, <<75,114,57,57>>,
    <<222,148,74,74>>, <<212,152,76,76>>, <<232,176,88,88>>, <<74,133,207,207>>,
    <<107,187,208,208>>, <<42,197,239,239>>, <<229,79,170,170>>, <<22,237,251,251>>,
    <<197,134,67,67>>, <<215,154,77,77>>, <<85,102,51,51>>, <<148,17,133,133>>,
    <<207,138,69,69>>, <<16,233,249,249>>, <<6,4,2,2>>, <<129,254,127,127>>,
    <<240,160,80,80>>, <<68,120,60,60>>, <<186,37,159,159>>, <<227,75,168,168>>,
    <<243,162,81,81>>, <<254,93,163,163>>, <<192,128,64,64>>, <<138,5,143,143>>,
    <<173,63,146,146>>, <<188,33,157,157>>, <<72,112,56,56>>, <<4,241,245,245>>,
    <<223,99,188,188>>, <<193,119,182,182>>, <<117,175,218,218>>, <<99,66,33,33>>,
    <<48,32,16,16>>, <<26,229,255,255>>, <<14,253,243,243>>, <<109,191,210,210>>,
    <<76,129,205,205>>, <<20,24,12,12>>, <<53,38,19,19>>, <<47,195,236,236>>,
    <<225,190,95,95>>, <<162,53,151,151>>, <<204,136,68,68>>, <<57,46,23,23>>,
    <<87,147,196,196>>, <<242,85,167,167>>, <<130,252,126,126>>, <<71,122,61,61>>,
    <<172,200,100,100>>, <<231,186,93,93>>, <<43,50,25,25>>, <<149,230,115,115>>,
    <<160,192,96,96>>, <<152,25,129,129>>, <<209,158,79,79>>, <<127,163,220,220>>,
    <<102,68,34,34>>, <<126,84,42,42>>, <<171,59,144,144>>, <<131,11,136,136>>,
    <<202,140,70,70>>, <<41,199,238,238>>, <<211,107,184,184>>, <<60,40,20,20>>,
    <<121,167,222,222>>, <<226,188,94,94>>, <<29,22,11,11>>, <<118,173,219,219>>,
    <<59,219,224,224>>, <<86,100,50,50>>, <<78,116,58,58>>, <<30,20,10,10>>,
    <<219,146,73,73>>, <<10,12,6,6>>, <<108,72,36,36>>, <<228,184,92,92>>,
    <<93,159,194,194>>, <<110,189,211,211>>, <<239,67,172,172>>, <<166,196,98,98>>,
    <<168,57,145,145>>, <<164,49,149,149>>, <<55,211,228,228>>, <<139,242,121,121>>,
    <<50,213,231,231>>, <<67,139,200,200>>, <<89,110,55,55>>, <<183,218,109,109>>,
    <<140,1,141,141>>, <<100,177,213,213>>, <<210,156,78,78>>, <<224,73,169,169>>,
    <<180,216,108,108>>, <<250,172,86,86>>, <<7,243,244,244>>, <<37,207,234,234>>,
    <<175,202,101,101>>, <<142,244,122,122>>, <<233,71,174,174>>, <<24,16,8,8>>,
    <<213,111,186,186>>, <<136,240,120,120>>, <<111,74,37,37>>, <<114,92,46,46>>,
    <<36,56,28,28>>, <<241,87,166,166>>, <<199,115,180,180>>, <<81,151,198,198>>,
    <<35,203,232,232>>, <<124,161,221,221>>, <<156,232,116,116>>, <<33,62,31,31>>,
    <<221,150,75,75>>, <<220,97,189,189>>, <<134,13,139,139>>, <<133,15,138,138>>,
    <<144,224,112,112>>, <<66,124,62,62>>, <<196,113,181,181>>, <<170,204,102,102>>,
    <<216,144,72,72>>, <<5,6,3,3>>, <<1,247,246,246>>, <<18,28,14,14>>,
    <<163,194,97,97>>, <<95,106,53,53>>, <<249,174,87,87>>, <<208,105,185,185>>,
    <<145,23,134,134>>, <<88,153,193,193>>, <<39,58,29,29>>, <<185,39,158,158>>,
    <<56,217,225,225>>, <<19,235,248,248>>, <<179,43,152,152>>, <<51,34,17,17>>,
    <<187,210,105,105>>, <<112,169,217,217>>, <<137,7,142,142>>, <<167,51,148,148>>,
    <<182,45,155,155>>, <<34,60,30,30>>, <<146,21,135,135>>, <<32,201,233,233>>,
    <<73,135,206,206>>, <<255,170,85,85>>, <<120,80,40,40>>, <<122,165,223,223>>,
    <<143,3,140,140>>, <<248,89,161,161>>, <<128,9,137,137>>, <<23,26,13,13>>,
    <<218,101,191,191>>, <<49,215,230,230>>, <<198,132,66,66>>, <<184,208,104,104>>,
    <<195,130,65,65>>, <<176,41,153,153>>, <<119,90,45,45>>, <<17,30,15,15>>,
    <<203,123,176,176>>, <<252,168,84,84>>, <<214,109,187,187>>, <<58,44,22,22>>
  >>

TE2 == <<
    <<99,165,198,99>>, <<124,132,248,124>>, <<119,153,238,119>>, <<123,141,246,123>>,
    <<242,13,255,242>>, <<107,189,214,107>>, <<111,177,222,111>>, <<197,84,145,197>>,
    <<48,80,96,48>>, <<1,3,2,1>>, <<103,169,206,103>>, <<43,125,86,43>>,
    <<254,25,231,254>>, <<215,98,181,215>>, <<171,230,77,171>>, <<118,154,236,118>>,
    <<202,69,143,202>>, <<130,157,31,130>>, <<201,64,137,201>>, <<125,135,250,125>>,
    <<250,21,239,250>>, <<89,235,178,89>>, <<71,201,142,71>>, <<240,11,251,240>>,
    <<173,236,65,173>>, <<212,103,179,212>>, <<162,253,95,162>>, <<175,234,69,175>>,
    <<156,191,35,156>>, <<164,247,83,164>>, <<114,150,228,114>>, <<192,91,155,192>>,
    <<183,194,117,183>>, <<253,28,225,253>>, <<147,174,61,147>>, <<38,106,76,38>>,
    <<54,90,108,54>>, <<63,65,126,63>>, <<247,2,245,247>>, <<204,79,131,204>>,
    <<52,92,104,52>>, <<165,244,81,165>>, <<229,52,209,229>>, <<241,8,249,241>>,
    <<113,147,226,113>>, <<216,115,171,216>>, <<49,83,98,49>>, <<21,63,42,21>>,
    <<4,12,8,4>>, <<199,82,149,199>>, <<35,101,70,35>>, <<195,94,157,195>>,
    <<24,40,48,24>>, <<150,161,55,150>>, <<5,15,10,5>>, <<154,181,47,154>>,
    <<7,9,14,7>>, <<18,54,36,18>>, <<128,155,27,128>>, <<226,61,223,226>>,
    <<235,38,205,235>>, <<39,105,78,39>>, <<178,205,127,178>>, <<117,159,234,117>>,
    <<9,27,18,9>>, <<131,158,29,131>>, <<44,116,88,44>>, <<26,46,52,26>>,
    <<27,45,54,27>>, <<110,178,220,110>>, <<90,238,180,90>>, <<160,251,91,160>>,
    <<82,246,164,82>>, <<59,77,118,59>>, <<214,97,183,214>>, <<179,206,125,179>>,
    <<41,123,82,41>>, <<227,62,221,227>>, <<47,113,94,47>>, <<132,151,19,132>>,
    <<83,245,166,83>>, <<209,104,185,209>>, <<0,0,0,0>>, <<237,44,193,237>>,
    <<32,96,64,32>>, <<252,31,227,252>>, <<177,200,121,177>>, <<91,237,182,91>>,
    <<106,190,212,106>>, <<203,70,141,203>>, <<190,217,103,190>>, <<57,75,114,57>>,
    <<74,222,148,74>>, <<76,212,152,76>>, <<88,232,176,88>>, <<207,74,133,207>>,
    <<208,107,187,208>>, <<239,42,197,239>>, <<170,229,79,170>>, <<251,22,237,251>>,
    <<67,197,134,67>>, <<77,215,154,77>>, <<51,85,102,51>>, <<133,148,17,133>>,
    <<69,207,138,69>>, <<249,16,233,249>>, <<2,6,4,2>>, <<127,129,254,127>>,
    <<80,240,160,80>>, <<60,68,120,60>>, <<159,186,37,159>>, <<168,227,75,168>>,
    <<81,243,162,81>>, <<163,254,93,163>>, <<64,192,128,64>>, <<143,138,5,143>>,
    <<146,173,63,146>>, <<157,188,33,157>>, <<56,72,112,56>>, <<245,4,241,245>>,
    <<188,223,99,188>>, <<182,193,119,182>>, <<218,117,175,218>>, <<33,99,66,33>>,
    <<16,48,32,16>>, <<255,26,229,255>>, <<243,14,253,243>>, <<210,109,191,210>>,
    <<205,76,129,205>>, <<12,20,24,12>>, <<19,53,38,19>>, <<236,47,195,236>>,
    <<95,225,190,95>>, <<151,162,53,151>>, <<68,204,136,68>>, <<23,57,46,23>>,
    <<196,87,147,196>>, <<167,242,85,167>>, <<126,130,252,126>>, <<61,71,122,61>>,
    <<100,172,200,100>>, <<93,231,186,93>>, <<25,43,50,25>>, <<115,149,230,115>>,
    <<96,160,192,96>>, <<129,152,25,129>>, <<79,209,158,79>>, <<220,127,163,220>>,
    <<34,102,68,34>>, <<42,126,84,42>>, <<144,171,59,144>>, <<136,131,11,136>>,
    <<70,202,140,70>>, <<238,41,199,238>>, <<184,211,107,184>>, <<20,60,40,20>>,
    <<222,121,167,222>>, <<94,226,188,94>>, <<11,29,22,11>>, <<219,118,173,219>>,
    <<224,59,219,224>>, <<50,86,100,50>>, <<58,78,116,58>>, <<10,30,20,10>>,
    <<73,219,146,73>>, <<6,10,12,6>>, <<36,108,72,36>>, <<92,228,184,92>>,
    <<194,93,159,194>>, <<211,110,189,211>>, <<172,239,67,172>>, <<98,166,196,98>>,
    <<145,168,57,145>>, <<149,164,49,149>>, <<228,55,211,228>>, <<121,139,242,121>>,
    <<231,50,213,231>>, <<200,67,139,200>>, <<55,89,110,55>>, <<109,183,218,109>>,
    <<141,140,1,141>>, <<213,100,177,213>>, <<78,210,156,78>>, <<169,224,73,169>>,
    <<108,180,216,108>>, <<86,250,172,86>>, <<244,7,243,244>>, <<234,37,207,234>>,
    <<101,175,202,101>>, <<122,142,244,122>>, <<174,233,71,174>>, <<8,24,16,8>>,
    <<186,213,111,186>>, <<120,136,240,120>>, <<37,111,74,37>>, <<46,114,92,46>>,
    <<28,36,56,28>>, <<166,241,87,166>>, <<180,199,115,180>>, <<198,81,151,198>>,
    <<232,35,203,232>>, <<221,124,161,221>>, <<116,156,232,116>>, <<31,33,62,31>>,
    <<75,221,150,75>>, <<189,220,97,189>>, <<139,134,13,139>>, <<138,133,15,138>>,
    <<112,144,224,112>>, <<62,66,124,62>>, <<181,196,113,181>>, <<102,170,204,102>>,
    <<72,216,144,72>>, <<3,5,6,3>>, <<246,1,247,246>>, <<14,18,28,14>>,
    <<97,163,194,97>>, <<53,95,106,53>>, <<87,249,174,87>>, <<185,208,105,185>>,
    <<134,145,23,134>>, <<193,88,153,193>>, <<29,39,58,29>>, <<158,185,39,158>>,
    <<225,56,217,225>>, <<248,19,235,248>>, <<152,179,43,152>>, <<17,51,34,17>>,
    <<105,187,210,105>>, <<217,112,169,217>>, <<142,137,7,142>>, <<148,167,51,148>>,
    <<155,182,45,155>>, <<30,34,60,30>>, <<135,146,21,135>>, <<233,32,201,233>>,
    <<206,73,135,206>>, <<85,255,170,85>>, <<40,120,80,40>>, <<223,122,165,223>>,
    <<140,143,3,140>>, <<161,248,89,161>>, <<137,128,9,137>>, <<13,23,26,13>>,
    <<191,218,101,191>>, <<230,49,215,230>>, <<66,198,132,66>>, <<104,184,208,104>>,
    <<65,195,130,65>>, <<153,176,41,153>>, <<45,119,90,45>>, <<15,17,30,15>>,
    <<176,203,123,176>>, <<84,252,168,84>>, <<187,214,109,187>>, <<22,58,44,22>>
  >>

TE3 == <<
    <<99,99,165,198>>, <<124,124,132,248>>, <<119,119,153,238>>, <<123,123,141,246>>,
    <<242,242,13,255>>, <<107,107,189,214>>, <<111,111,177,222>>, <<197,197,84,145>>,
    <<48,48,80,96>>, <<1,1,3,2>>, <<103,103,169,206>>, <<43,43,125,86>>,
    <<254,254,25,231>>, <<215,215,98,181>>, <<171,171,230,77>>, <<118,118,154,236>>,
    <<202,202,69,143>>, <<130,130,157,31>>, <<201,201,64,137>>, <<125,125,135,250>>,
    <<250,250,21,239>>, <<89,89,235,178>>, <<71,71,201,142>>, <<240,240,11,251>>,
    <<173,173,236,65>>, <<212,212,103,179>>, <<162,162,253,95>>, <<175,175,234,69>>,
    <<156,156,191,35>>, <<164,164,247,83>>, <<114,114,150,228>>, <<192,192,91,155>>,
    <<183,183,194,117>>, <<253,253,28,225>>, <<147,147,174,61>>, <<38,38,106,76>>,
    <<54,54,90,108>>, <<63,63,65,126>>, <<247,247,2,245>>, <<204,204,79,131>>,
    <<52,52,92,104>>, <<165,165,244,81>>, <<229,229,52,209>>, <<241,241,8,249>>,
    <<113,113,147,226>>, <<216,216,115,171>>, <<49,49,83,98>>, <<21,21,63,42>>,
    <<4,4,12,8>>, <<199,199,82,149>>, <<35,35,101,70>>, <<195,195,94,157>>,
    <<24,24,40,48>>, <<150,150,161,55>>, <<5,5,15,10>>, <<154,154,181,47>>,
    <<7,7,9,14>>, <<18,18,54,36>>, <<128,128,155,27>>, <<226,226,61,223>>,
    <<235,235,38,205>>, <<39,39,105,78>>, <<178,178,205,127>>, <<117,117,159,234>>,
    <<9,9,27,18>>, <<131,131,158,29>>, <<44,44,116,88>>, <<26,26,46,52>>,
    <<27,27,45,54>>, <<110,110,178,220>>, <<90,90,238,180>>, <<160,160,251,91>>,
    <<82,82,246,164>>, <<59,59,77,118>>, <<214,214,97,183>>, <<179,179,206,125>>,
    <<41,41,123,82>>, <<227,227,62,221>>, <<47,47,113,94>>, <<132,132,151,19>>,
    <<83,83,245,166>>, <<209,209,104,185>>, <<0,0,0,0>>, <<237,237,44,193>>,
    <<32,32,96,64>>, <<252,252,31,227>>, <<177,177,200,121>>, <<91,91,237,182>>,
    <<106,106,190,212>>, <<203,203,70,141>>, <<190,190,217,103>>, <<57,57,75,114>>,
    <<74,74,222,148>>, <<76,76,212,152>>, <<88,88,232,176>>, <<207,207,74,133>>,
    <<208,208,107,187>>, <<239,239,42,197>>, <<170,170,229,79>>, <<251,251,22,237>>,
    <<67,67,197,134>>, <<77,77,215,154>>, <<51,51,85,102>>, <<133,133,148,17>>,
    <<69,69,207,138>>, <<249,249,16,233>>, <<2,2,6,4>>, <<127,127,129,254>>,
    <<80,80,240,160>>, <<60,60,68,120>>, <<159,159,186,37>>, <<168,168,227,75>>,
    <<81,81,243,162>>, <<163,163,254,93>>, <<64,64,192,128>>, <<143,143,138,5>>,
    <<146,146,173,63>>, <<157,157,188,33>>, <<56,56,72,112>>, <<245,245,4,241>>,
    <<188,188,223,99>>, <<182,182,193,119>>, <<218,218,117,175>>, <<33,33,99,66>>,
    <<16,16,48,32>>, <<255,255,26,229>>, <<243,243,14,253>>, <<210,210,109,191>>,
    <<205,205,76,129>>, <<12,12,20,24>>, <<19,19,53,38>>, <<236,236,47,195>>,
    <<95,95,225,190>>, <<151,151,162,53>>, <<68,68,204,136>>, <<23,23,57,46>>,
    <<196,196,87,147>>, <<167,167,242,85>>, <<126,126,130,252>>, <<61,61,71,122>>,
    <<100,100,172,200>>, <<93,93,231,186>>, <<25,25,43,50>>, <<115,115,149,230>>,
    <<96,96,160,192>>, <<129,129,152,25>>, <<79,79,209,158>>, <<220,220,127,163>>,
    <<34,34,102,68>>, <<42,42,126,84>>, <<144,144,171,59>>, <<136,136,131,11>>,
    <<70,70,202,140>>, <<238,238,41,199>>, <<184,184,211,107>>, <<20,20,60,40>>,
    <<222,222,121,167>>, <<94,94,226,188>>, <<11,11,29,22>>, <<219,219,118,173>>,
    <<224,224,59,219>>, <<50,50,86,100>>, <<58,58,78,116>>, <<10,10,30,20>>,
    <<73,73,219,146>>, <<6,6,10,12>>, <<36,36,108,72>>, <<92,92,228,184>>,
    <<194,194,93,159>>, <<211,211,110,189>>, <<172,172,239,67>>, <<98,98,166,196>>,
    <<145,145,168,57>>, <<149,149,164,49>>, <<228,228,55,211>>, <<121,121,139,242>>,
    <<231,231,50,213>>, <<200,200,67,139>>, <<55,55,89,110>>, <<109,109,183,218>>,
    <<141,141,140,1>>, <<213,213,100,177>>, <<78,78,210,156>>, <<169,169,224,73>>,
    <<108,108,180,216>>, <<86,86,250,172>>, <<244,244,7,243>>, <<234,234,37,207>>,
    <<101,101,175,202>>, <<122,122,142,244>>, <<174,174,233,71>>, <<8,8,24,16>>,
    <<186,186,213,111>>, <<120,120,136,240>>, <<37,37,111,74>>, <<46,46,114,92>>,
    <<28,28,36,56>>, <<166,166,241,87>>, <<180,180,199,115>>, <<198,198,81,151>>,
    <<232,232,35,203>>, <<221,221,124,161>>, <<116,116,156,232>>, <<31,31,33,62>>,
    <<75,75,221,150>>, <<189,189,220,97>>, <<139,139,134,13>>, <<138,138,133,15>>,
    <<112,112,144,224>>, <<62,62,66,124>>, <<181,181,196,113>>, <<102,102,170,204>>,
    <<72,72,216,144>>, <<3,3,5,6>>, <<246,246,1,247>>, <<14,14,18,28>>,
    <<97,97,163,194>>, <<53,53,95,106>>, <<87,87,249,174>>, <<185,185,208,105>>,
    <<134,134,145,23>>, <<193,193,88,153>>, <<29,29,39,58>>, <<158,158,185,39>>,
    <<225,225,56,217>>, <<248,248,19,235>>, <<152,152,179,43>>, <<17,17,51,34>>,
    <<105,105,187,210>>, <<217,217,112,169>>, <<142,142,137,7>>, <<148,148,167,51>>,
    <<155,155,182,45>>, <<30,30,34,60>>, <<135,135,146,21>>, <<233,233,32,201>>,
    <<206,206,73,135>>, <<85,85,255,170>>, <<40,40,120,80>>, <<223,223,122,165>>,
    <<140,140,143,3>>, <<161,161,248,89>>, <<137,137,128,9>>, <<13,13,23,26>>,
    <<191,191,218,101>>, <<230,230,49,215>>, <<66,66,198,132>>, <<104,104,184,208>>,
    <<65,65,195,130>>, <<153,153,176,41>>, <<45,45,119,90>>, <<15,15,17,30>>,
    <<176,176,203,123>>, <<84,84,252,168>>, <<187,187,214,109>>, <<22,22,58,44>>
  >>
(***************************************************************************)
(* The AES round core.                                                     *)
(***************************************************************************)
ZeroWord == <<0, 0, 0, 0>>

read_uint32_be(block, offset) == SubSeq(block, offset + 1, offset + 4)

XorWord(a, b) == <<Xor8(a[1], b[1]), Xor8(a[2], b[2]), Xor8(a[3], b[3]), Xor8(a[4], b[4])>>

Xor5Words(a, b, c, d, e) == XorWord(XorWord(XorWord(XorWord(a, b), c), d), e)

\* _AESRound.__init__: the two round-key schedules, as sequences of words.
AESRound(key) ==
    LET words == Bytes([i \in 1..12 |-> read_uint32_be(key, 4 * (i - 1))], 12)
    IN  [aes10_key |-> Bytes([i \in 1..40 |-> words[((i - 1) % 12) + 1]], 40),
         aes4_key  |-> Bytes([i \in 1..16 |->
                                 IF i <= 4 THEN words[i + 4]
                                 ELSE IF i <= 8 THEN words[i - 4]
                                 ELSE IF i <= 12 THEN words[i]
                                 ELSE ZeroWord], 16)]

\* Column c of one round, the source's t0 .. t3: they differ in the state
\* words they read, s[c], s[c+1], s[c+2], s[c+3] with the indices mod 4.
round_column(keys, s, rk_off, c) ==
    Xor5Words(TE0[s[c + 1][1] + 1],
              TE1[s[((c + 1) % 4) + 1][2] + 1],
              TE2[s[((c + 2) % 4) + 1][3] + 1],
              TE3[s[((c + 3) % 4) + 1][4] + 1],
              keys[rk_off + c + 1])

\* The test on s makes TLC evaluate each round's state before the next round.
RECURSIVE round_loop(_, _, _, _)
round_loop(keys, s, r, nrounds) ==
    IF Len(s) # 4 \/ r = nrounds THEN s
    ELSE round_loop(keys,
                    Bytes([c \in 1..4 |-> round_column(keys, s, r * 4, c - 1)], 4),
                    r + 1, nrounds)

rounds(aes, block, nrounds) ==
    With(round_loop(IF nrounds = 4 THEN aes.aes4_key ELSE aes.aes10_key,
                    <<read_uint32_be(block, 0), read_uint32_be(block, 4),
                      read_uint32_be(block, 8), read_uint32_be(block, 12)>>,
                    0, nrounds),
         LAMBDA s : s[1] \o s[2] \o s[3] \o s[4])

AES4(aes, j, i_vec, l_vec, src) == rounds(aes, xor_bytes4x16(j, i_vec, l_vec, src), 4)

AES10(aes, l_vec, src) == rounds(aes, xor_bytes1x16(src, l_vec), 10)

(***************************************************************************)
(* hashlib.blake2b and hashlib.scrypt are library code outside the         *)
(* repository.  Each is modelled as a fixed function of its arguments into *)
(* byte strings of the length the call asks for; nothing below relies on   *)
(* which function it is.                                                   *)
(***************************************************************************)
RECURSIVE SumBytes(_)
SumBytes(s) == IF s = <<>> THEN 0 ELSE (Head(s) + 3 * SumBytes(Tail(s))) % 65536

blake2b(key, digest_size) ==
    Bytes([i \in 1..digest_size |-> TE0[((SumBytes(key) + 29 * i) % 256) + 1][2]],
          digest_size)

scrypt(password, salt, dklen) ==
    Bytes([i \in 1..dklen |->
              TE0[((SumBytes(password) + 7 * SumBytes(salt) + 13 * i) % 256) + 1][2]],
          dklen)

extract_key(key) ==
    IF Len(key) = EXTRACTED_KEY_SIZE THEN key ELSE blake2b(key, EXTRACTED_KEY_SIZE)

(***************************************************************************)
(* _AEZState: the blocks I[0..1], J[0..2], L[0..7] and the AES context.    *)
(* st.I[k+1] is the source's self.I[k], and so on.                         *)
(***************************************************************************)
NoAES == [aes10_key |-> <<>>, aes4_key |-> <<>>]

AEZState ==
    [I |-> Bytes([k \in 1..2 |-> mk_block], 2),
     J |-> Bytes([k \in 1..3 |-> mk_block], 3),
     L |-> Bytes([k \in 1..8 |-> mk_block], 8),
     aes |-> NoAES]

aes_reset(aes) ==
    [aes10_key |-> Bytes([i \in 1..Len(aes.aes10_key) |-> ZeroWord], Len(aes.aes10_key)),
     aes4_key  |-> Bytes([i \in 1..Len(aes.aes4_key) |-> ZeroWord], Len(aes.aes4_key))]

state_reset(st) ==
    [I |-> Bytes([k \in 1..2 |-> Zeros(Len(st.I[k]))], 2),
     J |-> Bytes([k \in 1..3 |-> Zeros(Len(st.J[k]))], 3),
     L |-> Bytes([k \in 1..8 |-> Zeros(Len(st.L[k]))], 8),
     aes |-> IF st.aes # NoAES THEN aes_reset(st.aes) ELSE st.aes]

\* init with L[6] doubled from L[4], not from L[3].
state_init_L6_from_L4(st, key) ==
    With(extract_key(key), LAMBDA extracted :
    LET I0 == Slice(extracted, 0, 16)
        J0 == Slice(extracted, 16, 32)
        L1 == Slice(extracted, 32, 48)
    IN  With(mult_block(2, J0), LAMBDA J1 :
        With(mult_block(2, L1), LAMBDA L2 :
        With(xor_bytes1x16(L2, L1), LAMBDA L3 :
        With(mult_block(2, L2), LAMBDA L4 :
            [I |-> <<I0, mult_block(2, I0)>>,
             J |-> <<J0, J1, mult_block(2, J1)>>,
             L |-> <<st.L[1], L1, L2, L3, L4, xor_bytes1x16(L4, L1),
                     mult_block(2, L4), xor_bytes1x16(mult_block(2, L4), L1)>>,
             aes |-> AESRound(extracted)])))))

state_init(st, key) ==
    With(extract_key(key), LAMBDA extracted :
    LET I0 == Slice(extracted, 0, 16)
        J0 == Slice(extracted, 16, 32)
        L1 == Slice(extracted, 32, 48)
    IN  With(mult_block(2, J0), LAMBDA J1 :
        With(mult_block(2, L1), LAMBDA L2 :
        With(xor_bytes1x16(L2, L1), LAMBDA L3 :
        With(mult_block(2, L2), LAMBDA L4 :
            [I |-> <<I0, mult_block(2, I0)>>,
             J |-> <<J0, J1, mult_block(2, J1)>>,
             L |-> <<st.L[1], L1, L2, L3, L4, xor_bytes1x16(L4, L1),
                     mult_block(2, L3), xor_bytes1x16(mult_block(2, L3), L1)>>,
             aes |-> AESRound(extracted)])))))

(***************************************************************************)
(* aez_hash.                                                               *)
(***************************************************************************)
uint32_to_bytes(v) ==
    <<(v \div 16777216) % 256, (v \div 65536) % 256, (v \div 256) % 256, v % 256>>

\* hash_blocks doubling I_tmp when the incremented i is a multiple of 8.
RECURSIVE hash_blocks_double_after_increment(_, _, _, _, _, _, _)
hash_blocks_double_after_increment(st, Jblk, piece, offset, i, I_tmp, sum) ==
    IF Len(sum) # BLOCK_SIZE \/ Len(I_tmp) # BLOCK_SIZE
       \/ Len(piece) - offset < BLOCK_SIZE
    THEN [sum |-> sum, offset |-> offset]
    ELSE hash_blocks_double_after_increment(st, Jblk, piece, offset + BLOCK_SIZE, i + 1,
                     IF (i + 1) % 8 = 0 THEN double_block(I_tmp) ELSE I_tmp,
                     xor_bytes1x16(sum,
                                   AES4(st.aes, Jblk, I_tmp, st.L[(i % 8) + 1],
                                        Slice(piece, offset, offset + BLOCK_SIZE))))

\* The walk over the full 16-byte blocks of one string (the nonce or an AD
\* piece); the tests on sum and I_tmp make TLC evaluate them at each step.
RECURSIVE hash_blocks(_, _, _, _, _, _, _)
hash_blocks(st, Jblk, piece, offset, i, I_tmp, sum) ==
    IF Len(sum) # BLOCK_SIZE \/ Len(I_tmp) # BLOCK_SIZE
       \/ Len(piece) - offset < BLOCK_SIZE
    THEN [sum |-> sum, offset |-> offset]
    ELSE hash_blocks(st, Jblk, piece, offset + BLOCK_SIZE, i + 1,
                     IF i % 8 = 0 THEN double_block(I_tmp) ELSE I_tmp,
                     xor_bytes1x16(sum,
                                   AES4(st.aes, Jblk, I_tmp, st.L[(i % 8) + 1],
                                        Slice(piece, offset, offset + BLOCK_SIZE))))

\* hash_absorb adding the padded block after every string.
hash_absorb_always_padded(st, Jblk, piece, sum) ==
    LET empty_piece == (piece = None \/ piece = <<>>)
        data == IF piece = None THEN <<>> ELSE piece
    IN  With(hash_blocks(st, Jblk, data, 0, 1, st.I[2], sum), LAMBDA w :
        LET bytes_left == Len(data) - w.offset
        IN  IF bytes_left >= 0 \/ empty_piece
            THEN xor_bytes1x16(
                     w.sum,
                     AES4(st.aes, Jblk, st.I[1], st.L[1],
                          one_zero_pad(Slice(data, w.offset, w.offset + bytes_left),
                                       bytes_left)))
            ELSE w.sum)

\* One string absorbed: its full blocks, then the padded block when a part
\* of a block remains or the string is empty (None counts as empty).
hash_absorb(st, Jblk, piece, sum) ==
    LET empty_piece == (piece = None \/ piece = <<>>)
        data == IF piece = None THEN <<>> ELSE piece
    IN  With(hash_blocks(st, Jblk, data, 0, 1, st.I[2], sum), LAMBDA w :
        LET bytes_left == Len(data) - w.offset
        IN  IF bytes_left > 0 \/ empty_piece
            THEN xor_bytes1x16(
                     w.sum,
                     AES4(st.aes, Jblk, st.I[1], st.L[1],
                          one_zero_pad(Slice(data, w.offset, w.offset + bytes_left),
                                       bytes_left)))
            ELSE w.sum)

RECURSIVE hash_ad(_, _, _, _)
hash_ad(st, ad, k, sum) ==
    IF Len(sum) # BLOCK_SIZE \/ k >= Len(ad) THEN sum
    ELSE hash_ad(st, ad, k + 1,
                 hash_absorb(st, mult_block(5 + k, st.J[1]), ad[k + 1], sum))

aez_hash(st, nonce, ad, tau) ==
    hash_ad(st, ad, 0,
            hash_absorb(st, st.J[3], nonce,
                        AES4(st.aes, xor_bytes1x16(st.J[1], st.J[2]), st.I[2], st.L[2],
                             Zeros(12) \o uint32_to_bytes(tau))))

(***************************************************************************)
(* aez_prf.                                                                *)
(***************************************************************************)
\* The counter's byte idx incremented with no carry into the byte before it.
ctr_increment_no_carry(ctr, idx) == [ctr EXCEPT ![idx + 1] = (@ + 1) % 256]

\* for idx in range(15, -1, -1): ctr[idx] += 1 (mod 256); stop unless it wrapped.
RECURSIVE ctr_increment(_, _)
ctr_increment(ctr, idx) ==
    IF idx < 0 THEN ctr
    ELSE LET v == (ctr[idx + 1] + 1) % 256
             c == [ctr EXCEPT ![idx + 1] = v]
         IN  IF v # 0 THEN c ELSE ctr_increment(c, idx - 1)

RECURSIVE prf_loop(_, _, _, _, _, _)
prf_loop(st, delta, ctr, off, remaining, dst) ==
    IF Len(ctr) # BLOCK_SIZE \/ remaining <= 0 THEN dst
    ELSE With(AES10(st.aes, st.L[4], xor_bytes1x16(delta, ctr)), LAMBDA buf :
              IF remaining >= BLOCK_SIZE
              THEN prf_loop(st, delta, ctr_increment(ctr, 15), off + BLOCK_SIZE,
                            remaining - BLOCK_SIZE,
                            SliceAssign(dst, off, off + BLOCK_SIZE, buf))
              ELSE SliceAssign(dst, off, off + remaining, Slice(buf, 0, remaining)))

aez_prf(st, delta, tau, dst) == prf_loop(st, delta, mk_block, 0, tau, dst)

(***************************************************************************)
(* aez_tiny: the Feistel cipher for 1..31 bytes.                           *)
(***************************************************************************)
\* buf[:16] = 0; buf[:left_len] = half[:left_len];
\* buf[mid] = (buf[mid] & mask) | pad; buf[:16] ^= delta; buf[15] ^= j & 0xFF
tiny_round_input(half, left_len, mid_index, mask, pad, delta, j) ==
    LET b0 == SliceAssign(mk_block, 0, left_len, Slice(half, 0, left_len))
        b1 == [b0 EXCEPT ![mid_index + 1] = BitOr(BitAnd(b0[mid_index + 1], mask), pad)]
        b2 == xor_bytes1x16(b1, delta)
    IN  [b2 EXCEPT ![BLOCK_SIZE] = Xor8(b2[BLOCK_SIZE], j % 256)]

\* tiny_loop with both half-rounds of an iteration under the counter j.
RECURSIVE tiny_loop_one_counter(_, _, _, _, _, _, _, _)
tiny_loop_one_counter(st, delta, idx_param, in_bytes, step, count, s, mp) ==
    IF Len(s.L) # BLOCK_SIZE \/ Len(s.R) # BLOCK_SIZE \/ count = 0 THEN s
    ELSE LET left_len == (in_bytes + 1) \div 2
             mid_index == in_bytes \div 2
         IN  With(xor_bytes1x16(
                      s.L,
                      AES4(st.aes, ZERO_BLOCK, st.I[2], st.L[idx_param + 1],
                           tiny_round_input(s.R, left_len, mid_index, mp.mask, mp.pad,
                                            delta, s.j))),
                  LAMBDA L1 :
             With(tiny_round_input(L1, left_len, mid_index, mp.mask, mp.pad,
                                   delta, s.j),
                  LAMBDA buf2 :
                 tiny_loop_one_counter(st, delta, idx_param, in_bytes, step, count - 1,
                           [L |-> L1,
                            R |-> xor_bytes1x16(
                                      s.R,
                                      AES4(st.aes, ZERO_BLOCK, st.I[2],
                                           st.L[idx_param + 1], buf2)),
                            j |-> s.j + step * 2,
                            buf |-> buf2,
                            trace |-> s.trace
                                      \o <<[op |-> "L", ctr |-> s.j, key |-> idx_param,
                                            bit |-> 0],
                                           [op |-> "R", ctr |-> s.j,
                                            key |-> idx_param, bit |-> 0]>>],
                           mp)))

\* The rounds // 2 iterations; the state is (L, R, j, buf[:16]), and trace
\* lists the AES4 calls made so far: the half each one updates, the round
\* counter XORed into buf[15] and the index of the L block it is keyed with.
RECURSIVE tiny_loop(_, _, _, _, _, _, _, _)
tiny_loop(st, delta, idx_param, in_bytes, step, count, s, mp) ==
    IF Len(s.L) # BLOCK_SIZE \/ Len(s.R) # BLOCK_SIZE \/ count = 0 THEN s
    ELSE LET left_len == (in_bytes + 1) \div 2
             mid_index == in_bytes \div 2
         IN  With(xor_bytes1x16(
                      s.L,
                      AES4(st.aes, ZERO_BLOCK, st.I[2], st.L[idx_param + 1],
                           tiny_round_input(s.R, left_len, mid_index, mp.mask, mp.pad,
                                            delta, s.j))),
                  LAMBDA L1 :
             With(tiny_round_input(L1, left_len, mid_index, mp.mask, mp.pad,
                                   delta, s.j + step),
                  LAMBDA buf2 :
                 tiny_loop(st, delta, idx_param, in_bytes, step, count - 1,
                           [L |-> L1,
                            R |-> xor_bytes1x16(
                                      s.R,
                                      AES4(st.aes, ZERO_BLOCK, st.I[2],
                                           st.L[idx_param + 1], buf2)),
                            j |-> s.j + step * 2,
                            buf |-> buf2,
                            trace |-> s.trace
                                      \o <<[op |-> "L", ctr |-> s.j, key |-> idx_param,
                                            bit |-> 0],
                                           [op |-> "R", ctr |-> s.j + step,
                                            key |-> idx_param, bit |-> 0]>>],
                           mp)))

\* tiny_whiten_bit without bit 7 of byte 0 forced to one.
tiny_whiten_bit_unforced(st, delta, bytes) ==
    LET b0 == SliceAssign(mk_block, 0, Len(bytes), bytes)
    IN  BitAnd(AES4(st.aes, ZERO_BLOCK, st.I[2], st.L[4], xor_bytes1x16(delta, b0))[1],
               128)

\* The most significant bit used to whiten messages shorter than a block:
\* tmp[0] & 0x80 of AES4(0, I[1], L[3], delta ^ (bytes || 0.. with bit 7 of byte 0 set)).
tiny_whiten_bit(st, delta, bytes) ==
    LET b0 == SliceAssign(mk_block, 0, Len(bytes), bytes)
        b1 == [b0 EXCEPT ![1] = BitOr(b0[1], 128)]
    IN  BitAnd(AES4(st.aes, ZERO_BLOCK, st.I[2], st.L[4], xor_bytes1x16(delta, b1))[1],
               128)

\* The right half as the loop wants it: for an odd length it is shifted
\* left by four bits (lines 532-538).
tiny_right_half(R0, in_bytes) ==
    LET half == in_bytes \div 2
    IN  IF in_bytes % 2 = 1
        THEN Bytes([k \in 1..BLOCK_SIZE |->
                       IF k <= half
                       THEN ((R0[k] * 16) + (R0[k + 1] \div 16)) % 256
                       ELSE IF k = half + 1 THEN (R0[k] * 16) % 256
                       ELSE R0[k]], BLOCK_SIZE)
        ELSE R0

\* buf after the loop: R || L, the halves joined at a nibble for an odd
\* length (lines 574-580).  bufB is buf with both halves copied in.
tiny_join(bufB, s, in_bytes) ==
    LET half == in_bytes \div 2
    IN  IF in_bytes % 2 = 1
        THEN Bytes([k \in 1..(2 * BLOCK_SIZE) |->
                       IF k - 1 > half /\ k - 1 <= in_bytes - 1
                       THEN ((bufB[k] \div 16) + (bufB[k - 1] * 16)) % 256
                       ELSE IF k - 1 = half
                       THEN BitOr((s.L[1] \div 16) % 16, BitAnd(s.R[half + 1], 240))
                       ELSE bufB[k]], 2 * BLOCK_SIZE)
        ELSE bufB

\* aez_tiny with the list of its AES4 calls: the rounds of the loop, and the
\* whitening calls (keyed with L[3]) with the bit each one gave.
aez_tiny_run(st, delta, data, direction, dst) ==
    LET in_bytes == Len(data)
        idx_param == IF in_bytes < BLOCK_SIZE THEN 7 ELSE 6
        nrounds == IF in_bytes = 1 THEN 24
                   ELSE IF in_bytes = 2 THEN 16
                   ELSE IF in_bytes < BLOCK_SIZE THEN 10
                   ELSE 8
        left_len == (in_bytes + 1) \div 2
        right_start == in_bytes \div 2
        half == in_bytes \div 2
        mp == IF in_bytes % 2 = 1 THEN [mask |-> 240, pad |-> 8]
                                  ELSE [mask |-> 0, pad |-> 128]
        L0 == SliceAssign(mk_block, 0, left_len, Slice(data, 0, left_len))
        R0 == SliceAssign(mk_block, 0, left_len,
                          Slice(data, right_start, right_start + left_len))
        j0 == IF direction # 0 THEN nrounds - 1 ELSE 0
        step == IF direction # 0 THEN -1 ELSE 1
    IN  With(tiny_loop(st, delta, idx_param, in_bytes, step, nrounds \div 2,
                       [L |-> IF direction # 0 /\ in_bytes < BLOCK_SIZE
                              THEN [L0 EXCEPT
                                       ![1] = Xor8(L0[1],
                                                   tiny_whiten_bit(st, delta, data))]
                              ELSE L0,
                        R |-> tiny_right_half(R0, in_bytes),
                        j |-> j0,
                        buf |-> mk_block,
                        trace |-> IF direction # 0 /\ in_bytes < BLOCK_SIZE
                                  THEN <<[op |-> "whiten L[0]", ctr |-> -1, key |-> 3,
                                          bit |-> tiny_whiten_bit(st, delta, data)]>>
                                  ELSE <<>>],
                       mp),
             LAMBDA s :
        \* buf is 32 bytes long; its first 16 hold the last round's input.
        With(tiny_join(SliceAssign(SliceAssign(s.buf \o mk_block, 0, half,
                                               Slice(s.R, 0, half)),
                                   half, half + left_len, Slice(s.L, 0, left_len)),
                       s, in_bytes),
             LAMBDA bufC :
        With(SliceAssign(dst, 0, in_bytes, Slice(bufC, 0, in_bytes)), LAMBDA dst1 :
            IF in_bytes < BLOCK_SIZE /\ direction = 0
            THEN With(tiny_whiten_bit(st, delta, Slice(bufC, 0, in_bytes)), LAMBDA msb :
                     [dst |-> [dst1 EXCEPT ![1] = Xor8(dst1[1], msb)],
                      trace |-> Append(s.trace,
                                       [op |-> "whiten dst[0]", ctr |-> -1, key |-> 3,
                                        bit |-> msb])])
            ELSE [dst |-> dst1, trace |-> s.trace])))

aez_tiny(st, delta, data, direction, dst) ==
    aez_tiny_run(st, delta, data, direction, dst).dst


(***************************************************************************)
(* aez_core: the two-pass cipher for 32 bytes and more.  dst is a          *)
(* bytearray, as the signature says and as _aez_decrypt passes it: the      *)
(* slices dst[a:b] the method takes (dst_tail, dst_fragment) are copies,    *)
(* so what it stores into them does not reach dst; only the two passes,     *)
(* which assign to output[a:b] itself, write the caller's buffer.           *)
(***************************************************************************)
\* tweaks lists, for each iteration made, its number i and the I_tmp it
\* used; the L block it used is L[i % 8].
RECURSIVE core_pass1_loop(_, _, _, _, _, _, _)
core_pass1_loop(st, input_bytes, offset, remaining, i, I_tmp, s) ==
    IF Len(s.X) # BLOCK_SIZE \/ Len(I_tmp) # BLOCK_SIZE \/ remaining < 64 THEN s
    ELSE LET block0 == Slice(input_bytes, offset, offset + BLOCK_SIZE)
             block1 == Slice(input_bytes, offset + BLOCK_SIZE, offset + BLOCK_SIZE * 2)
         IN  With(xor_bytes1x16(block0,
                                AES4(st.aes, st.J[1], I_tmp, st.L[(i % 8) + 1], block1)),
                  LAMBDA first_out :
             With(xor_bytes1x16(block1,
                                AES4(st.aes, ZERO_BLOCK, st.I[1], st.L[1], first_out)),
                  LAMBDA second_out :
                 core_pass1_loop(
                     st, input_bytes, offset + 32, remaining - 32, i + 1,
                     IF (i + 1) % 8 = 0 THEN double_block(I_tmp) ELSE I_tmp,
                     [output |-> SliceAssign(
                                     SliceAssign(s.output, offset, offset + BLOCK_SIZE,
                                                 first_out),
                                     offset + BLOCK_SIZE, offset + BLOCK_SIZE * 2,
                                     second_out),
                      X |-> xor_bytes1x16(second_out, s.X),
                      tweaks |-> Append(s.tweaks, [i |-> i, I_tmp |-> I_tmp])])))

aez_core_pass1(st, input_bytes, output, X) ==
    core_pass1_loop(st, input_bytes, 0, Len(input_bytes), 1, st.I[2],
                    [output |-> output, X |-> X, tweaks |-> <<>>])

RECURSIVE core_pass2_loop(_, _, _, _, _, _, _, _)
core_pass2_loop(st, input_bytes, S, offset, remaining, i, I_tmp, s) ==
    IF Len(s.Y) # BLOCK_SIZE \/ Len(I_tmp) # BLOCK_SIZE \/ remaining < 64 THEN s
    ELSE With(AES4(st.aes, st.J[2], I_tmp, st.L[(i % 8) + 1], S), LAMBDA tmp1 :
         With(xor_bytes1x16(Slice(s.output, offset, offset + BLOCK_SIZE), tmp1),
              LAMBDA first1 :
         With(xor_bytes1x16(Slice(s.output, offset + BLOCK_SIZE, offset + BLOCK_SIZE * 2),
                            tmp1),
              LAMBDA second1 :
         With(xor_bytes1x16(first1,
                            AES4(st.aes, ZERO_BLOCK, st.I[1], st.L[1], second1)),
              LAMBDA first2 :
         With(xor_bytes1x16(second1,
                            AES4(st.aes, st.J[1], I_tmp, st.L[(i % 8) + 1], first2)),
              LAMBDA second2 :
             \* the swap: first_out <- second_out, second_out <- first_out
             core_pass2_loop(
                 st, input_bytes, S, offset + 32, remaining - 32, i + 1,
                 IF (i + 1) % 8 = 0 THEN double_block(I_tmp) ELSE I_tmp,
                 [output |-> SliceAssign(
                                 SliceAssign(s.output, offset, offset + BLOCK_SIZE,
                                             second2),
                                 offset + BLOCK_SIZE, offset + BLOCK_SIZE * 2, first2),
                  Y |-> xor_bytes1x16(first1, s.Y),
                  tweaks |-> Append(s.tweaks, [i |-> i, I_tmp |-> I_tmp])]))))))

aez_core_pass2(st, input_bytes, output, Y, S) ==
    core_pass2_loop(st, input_bytes, S, 0, Len(input_bytes), 1, st.I[2],
                    [output |-> output, Y |-> Y, tweaks |-> <<>>])

\* The fragment's contribution to X (lines 603-617).
core_fragment_X(st, input_bytes, initial_bytes, frag_bytes, X) ==
    LET tail == Slice(input_bytes, initial_bytes, Len(input_bytes))
    IN  IF frag_bytes >= BLOCK_SIZE
        THEN xor_bytes1x16(
                 xor_bytes1x16(X, AES4(st.aes, ZERO_BLOCK, st.I[2], st.L[5],
                                       Slice(tail, BLOCK_SIZE, BLOCK_SIZE * 2))),
                 AES4(st.aes, ZERO_BLOCK, st.I[2], st.L[6],
                      one_zero_pad(Slice(tail, BLOCK_SIZE, Len(tail)),
                                   frag_bytes - BLOCK_SIZE)))
        ELSE IF frag_bytes > 0
        THEN xor_bytes1x16(X, AES4(st.aes, ZERO_BLOCK, st.I[2], st.L[5],
                                   one_zero_pad(tail, frag_bytes)))
        ELSE X

\* buf[k] ^= input[k] for k in range(n), on the keystream block tmp_block.
core_mask(tmp_block, input, n) ==
    Bytes([k \in 1..BLOCK_SIZE |->
              IF k <= n THEN Xor8(tmp_block[k], input[k]) ELSE tmp_block[k]],
          BLOCK_SIZE)

\* The fragment enciphered with S, and its contribution to Y (lines 639-679).
\* dst_fragment is the method's copy dst[initial_bytes:].
core_fragment_Y(st, input_bytes, initial_bytes, frag_bytes, S, Y, dst_fragment) ==
    LET input_fragment == Slice(input_bytes, initial_bytes, Len(input_bytes))
        remaining == frag_bytes - BLOCK_SIZE
    IN  IF frag_bytes >= BLOCK_SIZE
        THEN With(xor_bytes1x16(Slice(input_fragment, 0, BLOCK_SIZE),
                                AES10(st.aes, st.L[5], S)),
                  LAMBDA block :
             With(SliceAssign(
                      SliceAssign(dst_fragment, 0, BLOCK_SIZE, block),
                      BLOCK_SIZE, BLOCK_SIZE + remaining,
                      Slice(core_mask(AES10(st.aes, st.L[6], S),
                                      Slice(input_fragment, BLOCK_SIZE,
                                            Len(input_fragment)),
                                      remaining),
                            0, remaining)),
                  LAMBDA frag2 :
                 [dst_fragment |-> frag2,
                  Y |-> xor_bytes1x16(
                            xor_bytes1x16(Y, AES4(st.aes, ZERO_BLOCK, st.I[2], st.L[5],
                                                  block)),
                            AES4(st.aes, ZERO_BLOCK, st.I[2], st.L[6],
                                 one_zero_pad(Slice(frag2, BLOCK_SIZE,
                                                    BLOCK_SIZE + remaining),
                                              remaining)))]))
        ELSE IF frag_bytes > 0
        THEN With(SliceAssign(dst_fragment, 0, frag_bytes,
                              Slice(core_mask(AES10(st.aes, st.L[5], S), input_fragment,
                                              frag_bytes),
                                    0, frag_bytes)),
                  LAMBDA frag1 :
                 [dst_fragment |-> frag1,
                  Y |-> xor_bytes1x16(Y, AES4(st.aes, ZERO_BLOCK, st.I[2], st.L[5],
                                              one_zero_pad(Slice(frag1, 0, frag_bytes),
                                                           frag_bytes)))])
        ELSE [dst_fragment |-> dst_fragment, Y |-> Y]

\* aez_core, with the values of its locals when it returns.
aez_core_run(st, delta, data, direction, dst) ==
    LET in_bytes == Len(data)
        frag_bytes == in_bytes % 32
        initial_bytes == in_bytes - frag_bytes - 32
        input_bytes == data
        input_tail == Slice(input_bytes, in_bytes - 32, in_bytes)
        block1 == Slice(input_tail, 0, BLOCK_SIZE)
        block2 == Slice(input_tail, BLOCK_SIZE, BLOCK_SIZE * 2)
        Ld == st.L[((1 + direction) % 8) + 1]
        Le == st.L[((2 - direction) % 8) + 1]
    IN  With(IF in_bytes >= 64
             THEN aez_core_pass1(st, input_bytes, dst, mk_block)
             ELSE [output |-> dst, X |-> mk_block, tweaks |-> <<>>],
             LAMBDA p1 :
        With(core_fragment_X(st, input_bytes, initial_bytes, frag_bytes, p1.X),
             LAMBDA X :
        \* lines 619-634: the final pair, stored into the copy dst_tail
        With(xor_bytes4x16(X, block1, delta,
                           AES4(st.aes, ZERO_BLOCK, st.I[2], Ld, block2)),
             LAMBDA first_dst :
        With(xor_bytes1x16(block2, AES10(st.aes, Ld, first_dst)), LAMBDA second_dst :
        With(xor_bytes1x16(first_dst, second_dst), LAMBDA S :
        With(IF in_bytes >= 64
             THEN aez_core_pass2(st, input_bytes, p1.output, mk_block, S)
             ELSE [output |-> p1.output, Y |-> mk_block, tweaks |-> <<>>],
             LAMBDA p2 :
        With(core_fragment_Y(st, input_bytes, initial_bytes, frag_bytes, S, p2.Y,
                             Slice(p2.output, initial_bytes, Len(p2.output))),
             LAMBDA fr :
        \* lines 681-694: dst_tail is taken from dst again
        LET dst_tail == Slice(p2.output, in_bytes - 32, in_bytes)
            second_half == Slice(dst_tail, BLOCK_SIZE, BLOCK_SIZE * 2)
        IN  With(xor_bytes1x16(Slice(dst_tail, 0, BLOCK_SIZE),
                               AES10(st.aes, Le, second_half)),
                 LAMBDA first_half :
                [dst |-> p2.output,
                 dst_tail |-> xor_bytes4x16(AES4(st.aes, ZERO_BLOCK, st.I[2], Le,
                                                 first_half),
                                            second_half, delta, fr.Y)
                              \o first_half,
                 dst_fragment |-> fr.dst_fragment,
                 first_dst |-> first_dst, second_dst |-> second_dst,
                 X |-> X, Y |-> fr.Y, S |-> S,
                 pass1 |-> p1.tweaks, pass2 |-> p2.tweaks]))))))))

aez_core(st, delta, data, direction, dst) ==
    aez_core_run(st, delta, data, direction, dst).dst

encipher(st, delta, data, dst) ==
    IF data = <<>> THEN dst
    ELSE IF Len(data) < 32 THEN aez_tiny(st, delta, data, 0, dst)
    ELSE aez_core(st, delta, data, 0, dst)

\* decipher passing direction 0, as encipher does.
decipher_forward(st, delta, data, dst) ==
    IF data = <<>> THEN dst
    ELSE IF Len(data) < 32 THEN aez_tiny(st, delta, data, 0, dst)
    ELSE aez_core(st, delta, data, 0, dst)

decipher(st, delta, data, dst) ==
    IF data = <<>> THEN dst
    ELSE IF Len(data) < 32 THEN aez_tiny(st, delta, data, 1, dst)
    ELSE aez_core(st, delta, data, 1, dst)

(***************************************************************************)
(* _aez_decrypt.  The record it yields holds the returned value (a byte    *)
(* string, None, or IndexError when indexing x raises), the buffer x, the   *)
(* number of tag bytes the check has read, and the state as the call        *)
(* leaves it.                                                              *)
(***************************************************************************)
IndexError == <<-2>>

\* mismatch |= x[i] ^ ciphertext[i] for i in range(tau)
RECURSIVE prf_tag_check(_, _, _, _, _)
prf_tag_check(x, ciphertext, tau, i, mismatch) ==
    IF i >= tau THEN [mismatch |-> mismatch, reads |-> i, error |-> FALSE]
    ELSE prf_tag_check(x, ciphertext, tau, i + 1,
                       BitOr(mismatch, Xor8(x[i + 1], ciphertext[i + 1])))

\* mismatch |= x[base + i] for i in range(tau), with Python's indexing:
\* a negative index counts from the end, an index outside x raises.
RECURSIVE tag_check(_, _, _, _, _)
tag_check(x, base, tau, i, mismatch) ==
    IF i >= tau THEN [mismatch |-> mismatch, reads |-> i, error |-> FALSE]
    ELSE LET idx == IF base + i < 0 THEN base + i + Len(x) ELSE base + i
         IN  IF idx < 0 \/ idx >= Len(x)
             THEN [mismatch |-> mismatch, reads |-> i, error |-> TRUE]
             ELSE tag_check(x, base, tau, i + 1, BitOr(mismatch, x[idx + 1]))

\* x[:e]
SliceTo(x, e) == Slice(x, 0, IF e < 0 THEN Max(0, e + Len(x)) ELSE e)

aez_decrypt_run(key, ad_list, tau, ciphertext) ==
    With(state_init(state_reset(AEZState), key), LAMBDA state :
    With(aez_hash(state, None, ad_list, tau * 8), LAMBDA delta :
    With(IF Len(ciphertext) = tau
         THEN aez_prf(state, delta, tau, Zeros(Len(ciphertext)))
         ELSE decipher(state, delta, ciphertext, Zeros(Len(ciphertext))),
         LAMBDA x :
    With(IF Len(ciphertext) = tau
         THEN prf_tag_check(x, ciphertext, tau, 0, 0)
         ELSE tag_check(x, Len(ciphertext) - tau, tau, 0, 0),
         LAMBDA c :
        [result |-> IF c.error THEN IndexError
                    ELSE IF c.mismatch # 0 THEN None
                    ELSE IF Len(ciphertext) = tau THEN <<>>
                    ELSE SliceTo(x, Len(ciphertext) - tau),
         x |-> x, reads |-> c.reads, state |-> state, delta |-> delta]))))

aez_decrypt(key, ad_list, tau, ciphertext) ==
    aez_decrypt_run(key, ad_list, tau, ciphertext).result

(***************************************************************************)
(* CRC32C.  The 32-bit register is a word of four bytes, most significant  *)
(* first.                                                                  *)
(***************************************************************************)
CRC32C_POLY == <<130, 246, 59, 120>>

\* crc >> 1
ShiftRight1(w) ==
    <<w[1] \div 2,
      ((w[1] % 2) * 128) + (w[2] \div 2),
      ((w[2] % 2) * 128) + (w[3] \div 2),
      ((w[3] % 2) * 128) + (w[4] \div 2)>>

\* crc >> 8
ShiftRight8(w) == <<0, w[1], w[2], w[3]>>

RECURSIVE crc32c_table_bits(_, _)
crc32c_table_bits(crc, n) ==
    IF Len(crc) # 4 \/ n = 0 THEN crc
    ELSE crc32c_table_bits(IF crc[4] % 2 = 1
                           THEN XorWord(ShiftRight1(crc), CRC32C_POLY)
                           ELSE ShiftRight1(crc),
                           n - 1)

crc32c_table == [i \in 0..255 |-> crc32c_table_bits(<<0, 0, 0, i>>, 8)]

CRC32C_TABLE == crc32c_table

RECURSIVE crc32c_loop(_, _)
crc32c_loop(crc, data) ==
    IF Len(crc) # 4 \/ data = <<>> THEN crc
    ELSE crc32c_loop(XorWord(CRC32C_TABLE[Xor8(crc[4], Head(data))], ShiftRight8(crc)),
                     Tail(data))

\* _crc32c without the final XOR of line 72.
crc32c_no_final_xor(data) == crc32c_loop(<<255, 255, 255, 255>>, data)

crc32c(data) ==
    LET crc == crc32c_loop(<<255, 255, 255, 255>>, data)
    IN  <<255 - crc[1], 255 - crc[2], 255 - crc[3], 255 - crc[4]>>

(***************************************************************************)
(* The cipher-seed constants and the small conversions of the codec.       *)
(***************************************************************************)
EncipheredCipherSeedSize == 33

DecipheredCipherSeedSize == 19

SaltSize == 5

CipherTextExpansion == 4

BitsPerWord == 11

CipherSeedVersion == 0

\* "aezeed"
DEFAULT_PASSPHRASE == <<97, 101, 122, 101, 101, 100>>

\* A string is the sequence of its code points; str.encode("utf-8").
RECURSIVE utf8_encode(_)
utf8_encode(s) ==
    IF s = <<>> THEN <<>>
    ELSE LET cp == Head(s)
             enc == IF cp < 128 THEN <<cp>>
                    ELSE IF cp < 2048
                    THEN <<192 + (cp \div 64), 128 + (cp % 64)>>
                    ELSE IF cp < 65536
                    THEN <<224 + (cp \div 4096), 128 + ((cp \div 64) % 64), 128 + (cp % 64)>>
                    ELSE <<240 + (cp \div 262144), 128 + ((cp \div 4096) % 64),
                           128 + ((cp \div 64) % 64), 128 + (cp % 64)>>
         IN  enc \o utf8_encode(Tail(s))

\* pass_bytes_of with a user passphrase taking the place of the default one.
pass_bytes_of_replacing(passphrase) ==
    utf8_encode(IF passphrase = None \/ passphrase = <<>> THEN DEFAULT_PASSPHRASE
                ELSE passphrase)

\* (DEFAULT_PASSPHRASE + (passphrase or "")).encode("utf-8")
pass_bytes_of(passphrase) ==
    utf8_encode(DEFAULT_PASSPHRASE \o (IF passphrase = None THEN <<>> ELSE passphrase))

\* int.from_bytes(b, "big") of four bytes, as a word.
int_from_bytes_big(b) == <<b[1], b[2], b[3], b[4]>>

\* s[-n:]
LastBytes(s, n) == Slice(s, Max(0, Len(s) - n), Len(s))

encode_ad(version, salt) == <<version>> \o salt

(***************************************************************************)
(* The word list.  A word is named by its line in the 2048-entry word list *)
(* file (1..2048); the loader maps it to its index, line - 1.  Any other   *)
(* value is a word that is not in the list.                                 *)
(***************************************************************************)
WordListSize == Pow2(BitsPerWord)

word_to_index == [word \in 1..WordListSize |-> word - 1]

NotAWord == 0

(***************************************************************************)
(* State.                                                                  *)
(*   Codec: validate_mnemonic and then decode_mnemonic run on the same     *)
(*   (words, passphrase); mnemonic_to_bytes runs word by word.             *)
(*   Cipher: one _AEZState is initialised, hashes the AD list, enciphers   *)
(*   and deciphers a message, and _aez_decrypt runs on a ciphertext.       *)
(***************************************************************************)
VARIABLES
    words,          \* the mnemonic: a sequence of words
    passphrase,     \* a string (sequence of code points) or None
    pc,             \* where the codec is
    caller,         \* the function mnemonic_to_bytes was called from
    bits, bit_len, out, pos,   \* mnemonic_to_bytes: accumulator, buffered bits, output, bytes written
    w,              \* mnemonic_to_bytes: words consumed
    lookups,        \* word_to_index lookups made by the current call
    cipher_bytes,   \* what mnemonic_to_bytes returned to the caller
    valid,          \* validate_mnemonic's return value: "True", "False", or "unset"
    raised,         \* the exception decode_mnemonic raised, or "none"
    message,        \* its message
    version, salt, ciphertext, key,   \* decode_mnemonic's locals
    scrypt_calls,   \* the (password, salt) of each hashlib.scrypt call
    decrypt_calls,  \* the arguments of each _aez_decrypt call
    plaintext,      \* what _aez_decrypt returned
    result,         \* the DecipheredCipherSeed returned, or None
    akey, ad_list, tau, data,   \* cipher: key, AD list, tag length, message
    cpc,            \* where the cipher run is
    state,          \* the _AEZState
    delta,          \* aez_hash's result
    enciphered,     \* dst after encipher(delta, data, dst)
    deciphered,     \* dst after decipher(delta, enciphered, dst)
    dct,            \* the ciphertext handed to _aez_decrypt
    decrypted,      \* the outcome of _aez_decrypt
    nonce,          \* aez_hash's nonce argument; _aez_decrypt passes None
    prf_dst, prf_ctr, prf_off, prf_remaining,   \* aez_prf: dst, ctr, off, remaining
    argv,           \* batch runner: the --batch-* options given
    batch_file,     \* the lines of the batch file
    progress_file,  \* the lines of the progress file: (status, seed) pairs
    bpc,            \* where the batch runner is
    worker_ids, workers_total, skip_completed,   \* _parse_batch_arguments' results
    batch_seed_list,   \* the lines in processing order
    completed_seeds, seed_index, retval, match_found,   \* the loop's variables
    line_index,     \* lines of batch_seed_list the loop has taken
    seed_to_try,    \* the seed btcrseed.main is running on
    started_with,   \* the progress file as the run read it when it started
    handled,        \* what the loop did with each seed line it took
    appended,       \* the _append_progress calls of this run
    foreign_lines,  \* progress lines appended by other workers
    beep_enabled,   \* success_alert: _beep_enabled
    stop_event,     \* _success_beep_stop_event: an Event, or 0 for None
    beep_thread,    \* _success_beep_thread: a Thread, or 0 for None
    event_set,      \* the flag of every Event created
    tpc,            \* where each beep-loop thread is
    t_index,        \* each thread's index in _emit_beeps
    t_event,        \* the object each thread loaded from _success_beep_stop_event
    apc,            \* where the caller of the alert functions is
    stop_seen,      \* threads that were running when stop_success_beep was called
    beeps_left      \* beeps each such thread had left in its burst at that call

codecVars == <<words, passphrase, pc, caller, bits, bit_len, out, pos, w, lookups,
               cipher_bytes, valid, raised, message, version, salt, ciphertext, key,
               scrypt_calls, decrypt_calls, plaintext, result>>

cipherVars == <<akey, ad_list, tau, data, cpc, state, delta, enciphered, deciphered,
                dct, decrypted, nonce, prf_dst, prf_ctr, prf_off, prf_remaining>>

prfVars == <<prf_dst, prf_ctr, prf_off, prf_remaining>>

batchVars == <<argv, batch_file, progress_file, bpc, worker_ids, workers_total,
               skip_completed, batch_seed_list, completed_seeds, seed_index, retval,
               match_found, line_index, seed_to_try, started_with, handled, appended,
               foreign_lines>>

beepVars == <<beep_enabled, stop_event, beep_thread, event_set, tpc, t_index, t_event,
              apc, stop_seen, beeps_left>>

vars == <<codecVars, cipherVars, batchVars, beepVars>>

(***************************************************************************)
(* Inputs of the codec.                                                    *)
(***************************************************************************)
\* How many cipher seeds are sealed into mnemonics.
NumSeeds == 2

\* The passphrases tried: None, "", "pw", and one that is not ASCII.
Passphrases == {None, <<>>, <<112, 119>>, <<233, 8364>>}

SeedPlaintext(k) ==
    Bytes([i \in 1..DecipheredCipherSeedSize |->
              IF i = 1 THEN 0 ELSE (k * 37 + i * 11) % 256],
          DecipheredCipherSeedSize)

SeedSalt(k) == Bytes([i \in 1..SaltSize |-> (k * 53 + i * 17) % 256], SaltSize)

SeedPassphrase(k) == IF k % 2 = 1 THEN <<>> ELSE <<112, 119>>

\* The envelope an encoder makes: version, AEZ ciphertext of plaintext || 0^4,
\* salt, CRC32C.
SealedEnvelope(ver, plain, slt, pass) ==
    With(state_init(state_reset(AEZState), scrypt(pass_bytes_of(pass), slt, 32)),
         LAMBDA st :
    With(<<ver>>
         \o encipher(st, aez_hash(st, None, <<encode_ad(ver, slt)>>,
                                  CipherTextExpansion * 8),
                     plain \o Zeros(CipherTextExpansion),
                     Zeros(Len(plain) + CipherTextExpansion))
         \o slt,
         LAMBDA body : body \o crc32c(body)))

\* Bit j (0 = first) of a byte string, and the 11-bit field f of it.
BitAt(bytes, j) == (bytes[(j \div 8) + 1] \div Pow2(7 - (j % 8))) % 2

RECURSIVE FieldValue(_, _, _)
FieldValue(bytes, f, t) ==
    IF t = BitsPerWord THEN 0
    ELSE BitAt(bytes, BitsPerWord * f + t) * Pow2(BitsPerWord - 1 - t)
         + FieldValue(bytes, f, t + 1)

\* The 24 words that spell an envelope.
EnvelopeWords(env) == Bytes([f \in 1..24 |-> FieldValue(env, f - 1, 0) + 1], 24)

\* The mnemonic of seed k.
SeedWords(k) ==
    EnvelopeWords(SealedEnvelope(CipherSeedVersion, SeedPlaintext(k), SeedSalt(k),
                                 SeedPassphrase(k)))

\* Mnemonics that are good, and mnemonics damaged in each way the decoder
\* rejects: another version byte under a correct CRC, a word swapped for
\* another list word, a word that is not in the list, a wrong word count.
MnemonicsOfSeed(k) ==
    With(SeedWords(k), LAMBDA good :
    With(EnvelopeWords(SealedEnvelope(1 + (k % 7), SeedPlaintext(k), SeedSalt(k),
                                      SeedPassphrase(k))),
         LAMBDA other :
        { good,
          other,
          [good EXCEPT ![12] = (good[12] % WordListSize) + 1],
          [good EXCEPT ![1] = NotAWord],
          [good EXCEPT ![24] = NotAWord],
          [other EXCEPT ![13] = WordListSize + 1],
          SubSeq(good, 1, 23),
          good \o <<good[1]>>,
          [f \in 1..23 |-> NotAWord],
          [f \in 1..25 |-> IF f = 2 THEN NotAWord ELSE good[((f * k) % 24) + 1]] }))

\* Word sequences that spell no envelope in particular.
PatternWords(k) ==
    { [f \in 1..24 |-> ((f * (611 + k) + 97 * k) % WordListSize) + 1],
      [f \in 1..24 |-> IF f % 2 = k % 2 THEN WordListSize ELSE 1],
      [f \in 1..24 |-> IF f = 1 THEN 1 + (k % 8) ELSE WordListSize + 1 - f * k] }

\* The word sequences handed to the codec, made from the first n seeds.
Mnemonics(n) ==
    {<<>>} \cup UNION { MnemonicsOfSeed(k) : k \in 1..n }
           \cup UNION { PatternWords(k) : k \in 1..n }

(***************************************************************************)
(* seedrecover_batch.py.  A line of the batch file is the sequence of its  *)
(* characters without the newline; a line of the progress file is the     *)
(* sequence of its tab-separated fields, the status then the seed.         *)
(***************************************************************************)
\* str.strip()
RECURSIVE strip(_)
strip(s) ==
    IF s = <<>> THEN s
    ELSE IF Head(s) = " " THEN strip(Tail(s))
    ELSE IF s[Len(s)] = " " THEN strip(SubSeq(s, 1, Len(s) - 1))
    ELSE s

\* str.split("#")[0]
RECURSIVE split_hash_first(_)
split_hash_first(s) ==
    IF s = <<>> \/ Head(s) = "#" THEN <<>>
    ELSE <<Head(s)>> \o split_hash_first(Tail(s))

\* not stripped_line or stripped_line.startswith('#')
blank_or_comment(mnemonic) ==
    IF strip(mnemonic) = <<>> THEN TRUE ELSE Head(strip(mnemonic)) = "#"

\* mnemonic.split("#")[0].strip()
seed_of(mnemonic) == strip(split_hash_first(mnemonic))

success_statuses == {"MATCHED", "CHECKED"}

\* The loop of _load_completed_seeds over the lines from k on, with the dict
\* completed_status as a function from the seeds seen to their status.
RECURSIVE load_loop(_, _, _)
load_loop(lines, k, completed_status) ==
    IF k > Len(lines) THEN completed_status
    ELSE LET parts == lines[k]
         IN  IF Len(parts) < 2 \/ parts[2] = <<>>
             THEN load_loop(lines, k + 1, completed_status)
             ELSE LET previous_status ==
                          IF parts[2] \in DOMAIN completed_status
                          THEN completed_status[parts[2]] ELSE "None"
                  IN  IF previous_status \in success_statuses
                      THEN load_loop(lines, k + 1, completed_status)
                      ELSE IF parts[1] \in success_statuses \/ previous_status = "None"
                      THEN load_loop(lines, k + 1,
                                     [x \in DOMAIN completed_status \cup {parts[2]} |->
                                         IF x = parts[2] THEN parts[1]
                                         ELSE completed_status[x]])
                      ELSE load_loop(lines, k + 1, completed_status)

\* _load_completed_seeds with the status of the last line of each seed.
load_completed_seeds_last_wins(lines) ==
    {parts[2] : parts \in
        {lines[k] : k \in {j \in 1..Len(lines) :
             /\ Len(lines[j]) >= 2
             /\ lines[j][1] \in success_statuses
             /\ \A i \in (j + 1)..Len(lines) :
                   Len(lines[i]) < 2 \/ lines[i][2] # lines[j][2]}}}

\* _load_completed_seeds on a progress file with these lines; a file that
\* does not exist has none.
load_completed_seeds(lines) ==
    LET completed_status == load_loop(lines, 1, <<>>)
    IN  {x \in DOMAIN completed_status : completed_status[x] \in success_statuses}

\* _progress_contains_match: some line starts with "MATCHED\t".
progress_contains_match(lines) ==
    \E k \in 1..Len(lines) : Len(lines[k]) >= 2 /\ lines[k][1] = "MATCHED"

\* The lines _append_progress leaves in the file: status and seed, then the
\* optional timestamp and argument fields, which no reader looks at.
append_progress(lines, seed, status) == Append(lines, <<status, seed>>)

\* The batch runner takes no step in a run of the codec or the cipher.
BatchIdle ==
    /\ argv = None /\ batch_file = <<>> /\ progress_file = <<>>
    /\ bpc = "off"
    /\ worker_ids = None /\ workers_total = 0 /\ skip_completed = FALSE
    /\ batch_seed_list = <<>> /\ completed_seeds = {} /\ seed_index = 0
    /\ retval = 0 /\ match_found = FALSE /\ line_index = 0 /\ seed_to_try = None
    /\ started_with = <<>> /\ handled = <<>> /\ appended = <<>>
    /\ foreign_lines = 0

(***************************************************************************)
(* success_alert.py.  Events and threads are numbered in the order         *)
(* start_success_beep creates them; 0 stands for None.                     *)
(***************************************************************************)
\* How many times start_success_beep may create an Event and a Thread.
MaxStarts == 2

Threads == 1..MaxStarts

\* The module as imported: _beep_enabled False, no event, no thread.
BeepLoaded ==
    /\ beep_enabled = FALSE
    /\ stop_event = 0 /\ beep_thread = 0
    /\ event_set = [e \in Threads |-> FALSE]
    /\ tpc = [t \in Threads |-> "none"]
    /\ t_index = [t \in Threads |-> 0]
    /\ t_event = [t \in Threads |-> 0]
    /\ stop_seen = {}
    /\ beeps_left = [t \in Threads |-> 0]

\* The alert takes no step in a run of the codec, the cipher or the batch.
BeepIdle == BeepLoaded /\ apc = "off"

\* A value no call has produced yet.
Unset == <<-3>>

\* No DecipheredCipherSeed has been returned.
NoSeed == [entropy |-> Unset, salt |-> Unset, internal_version |-> -1, birthday |-> -1]

(***************************************************************************)
(* The codec: validate_mnemonic(words), then decode_mnemonic(words,        *)
(* passphrase), each calling mnemonic_to_bytes.                            *)
(***************************************************************************)
CodecInit ==
    /\ words \in Mnemonics(NumSeeds)
    /\ passphrase \in Passphrases
    /\ pc = "start"
    /\ caller = "none"
    /\ bits = 0 /\ bit_len = 0 /\ out = <<>> /\ pos = 0 /\ w = 0 /\ lookups = 0
    /\ cipher_bytes = Unset
    /\ valid = "unset"
    /\ raised = "none" /\ message = ""
    /\ version = -1 /\ salt = Unset /\ ciphertext = Unset /\ key = Unset
    /\ scrypt_calls = <<>> /\ decrypt_calls = <<>>
    /\ plaintext = Unset /\ result = NoSeed

mtbLocals == <<bits, bit_len, out, pos, w>>

decodeLocals == <<version, salt, ciphertext, key, scrypt_calls, decrypt_calls,
                  plaintext, result>>

\* validate_mnemonic is called (line 806).
ValidateCall ==
    /\ pc = "start"
    /\ caller' = "validate_mnemonic"
    /\ lookups' = 0
    /\ pc' = "mtb_enter"
    /\ UNCHANGED <<words, passphrase, mtbLocals, cipher_bytes, valid, raised, message,
                   decodeLocals>>
    /\ UNCHANGED <<cipherVars, batchVars, beepVars>>

\* InvalidMnemonicError leaves mnemonic_to_bytes: validate_mnemonic catches it
\* and returns False (lines 807-808), decode_mnemonic lets it through.
MtbRaise(msg) ==
    IF caller = "validate_mnemonic"
    THEN /\ valid' = "False"
         /\ pc' = "validate_done"
         /\ UNCHANGED <<raised, message>>
    ELSE /\ raised' = "InvalidMnemonicError"
         /\ message' = msg
         /\ pc' = "decode_done"
         /\ UNCHANGED valid

\* mnemonic_to_bytes, lines 783-788.
MtbEnter ==
    /\ pc = "mtb_enter"
    /\ IF Len(words) # 24
       THEN /\ MtbRaise("aezeed mnemonics must have 24 words")
            /\ UNCHANGED mtbLocals
       ELSE /\ bits' = 0
            /\ bit_len' = 0
            /\ out' = Zeros(EncipheredCipherSeedSize)
            /\ pos' = 0
            /\ w' = 0
            /\ pc' = "mtb_word"
            /\ UNCHANGED <<valid, raised, message>>
    /\ UNCHANGED <<words, passphrase, caller, lookups, cipher_bytes, decodeLocals>>
    /\ UNCHANGED <<cipherVars, batchVars, beepVars>>

\* MtbWord with the index cut to its low 10 bits.
MtbWord_index_truncated ==
    /\ pc = "mtb_word"
    /\ w < Len(words)
    /\ lookups' = lookups + 1
    /\ IF words[w + 1] \notin DOMAIN word_to_index
       THEN /\ MtbRaise("unknown word")
            /\ UNCHANGED <<bits, bit_len>>
       ELSE /\ bits' = BitOr(bits * Pow2(BitsPerWord), word_to_index[words[w + 1]] % 1024)
            /\ bit_len' = bit_len + BitsPerWord
            /\ pc' = "mtb_emit"
            /\ UNCHANGED <<valid, raised, message>>
    /\ UNCHANGED <<words, passphrase, caller, out, pos, w, cipher_bytes, decodeLocals>>
    /\ UNCHANGED <<cipherVars, batchVars, beepVars>>

\* Lines 789-795: the next word is looked up and shifted into the accumulator.
MtbWord ==
    /\ pc = "mtb_word"
    /\ w < Len(words)
    /\ lookups' = lookups + 1
    /\ IF words[w + 1] \notin DOMAIN word_to_index
       THEN /\ MtbRaise("unknown word")
            /\ UNCHANGED <<bits, bit_len>>
       ELSE /\ bits' = BitOr(bits * Pow2(BitsPerWord), word_to_index[words[w + 1]])
            /\ bit_len' = bit_len + BitsPerWord
            /\ pc' = "mtb_emit"
            /\ UNCHANGED <<valid, raised, message>>
    /\ UNCHANGED <<words, passphrase, caller, out, pos, w, cipher_bytes, decodeLocals>>
    /\ UNCHANGED <<cipherVars, batchVars, beepVars>>

\* MtbEmit leaving the emitted bits in the accumulator.
MtbEmit_unmasked ==
    /\ pc = "mtb_emit"
    /\ bit_len >= 8
    /\ bit_len' = bit_len - 8
    /\ out' = [out EXCEPT ![pos + 1] = (bits \div Pow2(bit_len - 8)) % 256]
    /\ bits' = bits
    /\ pos' = pos + 1
    /\ UNCHANGED <<words, passphrase, pc, caller, w, lookups, cipher_bytes, valid,
                   raised, message, decodeLocals>>
    /\ UNCHANGED <<cipherVars, batchVars, beepVars>>

\* MtbEmit writing the low byte of the accumulator, not its top 8 buffered bits.
MtbEmit_low_byte ==
    /\ pc = "mtb_emit"
    /\ bit_len >= 8
    /\ bit_len' = bit_len - 8
    /\ out' = [out EXCEPT ![pos + 1] = bits % 256]
    /\ bits' = IF bit_len - 8 # 0 THEN BitAnd(bits, Pow2(bit_len - 8) - 1) ELSE 0
    /\ pos' = pos + 1
    /\ UNCHANGED <<words, passphrase, pc, caller, w, lookups, cipher_bytes, valid,
                   raised, message, decodeLocals>>
    /\ UNCHANGED <<cipherVars, batchVars, beepVars>>

\* Lines 796-800: one pass of the while loop writes one byte.
MtbEmit ==
    /\ pc = "mtb_emit"
    /\ bit_len >= 8
    /\ bit_len' = bit_len - 8
    /\ out' = [out EXCEPT ![pos + 1] = (bits \div Pow2(bit_len - 8)) % 256]
    /\ bits' = IF bit_len - 8 # 0 THEN BitAnd(bits, Pow2(bit_len - 8) - 1) ELSE 0
    /\ pos' = pos + 1
    /\ UNCHANGED <<words, passphrase, pc, caller, w, lookups, cipher_bytes, valid,
                   raised, message, decodeLocals>>
    /\ UNCHANGED <<cipherVars, batchVars, beepVars>>

\* The while loop ends; the for loop takes the next word.
MtbNext ==
    /\ pc = "mtb_emit"
    /\ bit_len < 8
    /\ w' = w + 1
    /\ pc' = "mtb_word"
    /\ UNCHANGED <<words, passphrase, caller, bits, bit_len, out, pos, lookups,
                   cipher_bytes, valid, raised, message, decodeLocals>>
    /\ UNCHANGED <<cipherVars, batchVars, beepVars>>

\* Line 801: return bytes(out).
MtbReturn ==
    /\ pc = "mtb_word"
    /\ w = Len(words)
    /\ cipher_bytes' = out
    /\ pc' = IF caller = "validate_mnemonic" THEN "validate_check" ELSE "decode_version"
    /\ UNCHANGED <<words, passphrase, caller, mtbLocals, lookups, valid, raised, message,
                   decodeLocals>>
    /\ UNCHANGED <<cipherVars, batchVars, beepVars>>

\* ValidateCheck without the version test of line 809.
ValidateCheck_no_version ==
    /\ pc = "validate_check"
    /\ valid' = IF int_from_bytes_big(LastBytes(cipher_bytes, 4))
                        = crc32c(Slice(cipher_bytes, 0, EncipheredCipherSeedSize - 4))
                THEN "True"
                ELSE "False"
    /\ pc' = "validate_done"
    /\ UNCHANGED <<words, passphrase, caller, mtbLocals, lookups, cipher_bytes, raised,
                   message, decodeLocals>>
    /\ UNCHANGED <<cipherVars, batchVars, beepVars>>

\* validate_mnemonic, lines 809-813.
ValidateCheck ==
    /\ pc = "validate_check"
    /\ valid' = IF cipher_bytes[1] # CipherSeedVersion THEN "False"
                ELSE IF int_from_bytes_big(LastBytes(cipher_bytes, 4))
                        = crc32c(Slice(cipher_bytes, 0, EncipheredCipherSeedSize - 4))
                THEN "True"
                ELSE "False"
    /\ pc' = "validate_done"
    /\ UNCHANGED <<words, passphrase, caller, mtbLocals, lookups, cipher_bytes, raised,
                   message, decodeLocals>>
    /\ UNCHANGED <<cipherVars, batchVars, beepVars>>

\* decode_mnemonic is called on the same words (line 825).
DecodeCall ==
    /\ pc = "validate_done"
    /\ caller' = "decode_mnemonic"
    /\ lookups' = 0
    /\ pc' = "mtb_enter"
    /\ UNCHANGED <<words, passphrase, mtbLocals, cipher_bytes, valid, raised, message,
                   decodeLocals>>
    /\ UNCHANGED <<cipherVars, batchVars, beepVars>>

\* Lines 826-828.
DecodeVersion ==
    /\ pc = "decode_version"
    /\ version' = cipher_bytes[1]
    /\ IF cipher_bytes[1] # CipherSeedVersion
       THEN /\ raised' = "InvalidMnemonicError"
            /\ message' = "unsupported aezeed version"
            /\ pc' = "decode_done"
       ELSE /\ pc' = "decode_checksum"
            /\ UNCHANGED <<raised, message>>
    /\ UNCHANGED <<words, passphrase, caller, mtbLocals, lookups, cipher_bytes, valid,
                   salt, ciphertext, key, scrypt_calls, decrypt_calls, plaintext, result>>
    /\ UNCHANGED <<cipherVars, batchVars, beepVars>>

\* DecodeChecksum going on to the KDF whatever the checksum is.
DecodeChecksum_unchecked ==
    /\ pc = "decode_checksum"
    /\ IF FALSE
       THEN /\ raised' = "InvalidMnemonicError"
            /\ message' = "checksum mismatch"
            /\ pc' = "decode_done"
            /\ UNCHANGED <<salt, ciphertext>>
       ELSE /\ salt' = Slice(cipher_bytes, EncipheredCipherSeedSize - 4 - SaltSize,
                             EncipheredCipherSeedSize - 4)
            /\ ciphertext' = Slice(cipher_bytes, 1,
                                   EncipheredCipherSeedSize - 4 - SaltSize)
            /\ pc' = "decode_scrypt"
            /\ UNCHANGED <<raised, message>>
    /\ UNCHANGED <<words, passphrase, caller, mtbLocals, lookups, cipher_bytes, valid,
                   version, key, scrypt_calls, decrypt_calls, plaintext, result>>
    /\ UNCHANGED <<cipherVars, batchVars, beepVars>>

\* DecodeChecksum taking the salt one byte further on, into the CRC field.
DecodeChecksum_salt_shifted ==
    /\ pc = "decode_checksum"
    /\ IF int_from_bytes_big(LastBytes(cipher_bytes, 4))
          # crc32c(Slice(cipher_bytes, 0, EncipheredCipherSeedSize - 4))
       THEN /\ raised' = "InvalidMnemonicError"
            /\ message' = "checksum mismatch"
            /\ pc' = "decode_done"
            /\ UNCHANGED <<salt, ciphertext>>
       ELSE /\ salt' = Slice(cipher_bytes, EncipheredCipherSeedSize - 4 - SaltSize + 1,
                             EncipheredCipherSeedSize - 4 + 1)
            /\ ciphertext' = Slice(cipher_bytes, 1,
                                   EncipheredCipherSeedSize - 4 - SaltSize)
            /\ pc' = "decode_scrypt"
            /\ UNCHANGED <<raised, message>>
    /\ UNCHANGED <<words, passphrase, caller, mtbLocals, lookups, cipher_bytes, valid,
                   version, key, scrypt_calls, decrypt_calls, plaintext, result>>
    /\ UNCHANGED <<cipherVars, batchVars, beepVars>>

\* Lines 829-834.
DecodeChecksum ==
    /\ pc = "decode_checksum"
    /\ IF int_from_bytes_big(LastBytes(cipher_bytes, 4))
          # crc32c(Slice(cipher_bytes, 0, EncipheredCipherSeedSize - 4))
       THEN /\ raised' = "InvalidMnemonicError"
            /\ message' = "checksum mismatch"
            /\ pc' = "decode_done"
            /\ UNCHANGED <<salt, ciphertext>>
       ELSE /\ salt' = Slice(cipher_bytes, EncipheredCipherSeedSize - 4 - SaltSize,
                             EncipheredCipherSeedSize - 4)
            /\ ciphertext' = Slice(cipher_bytes, 1,
                                   EncipheredCipherSeedSize - 4 - SaltSize)
            /\ pc' = "decode_scrypt"
            /\ UNCHANGED <<raised, message>>
    /\ UNCHANGED <<words, passphrase, caller, mtbLocals, lookups, cipher_bytes, valid,
                   version, key, scrypt_calls, decrypt_calls, plaintext, result>>
    /\ UNCHANGED <<cipherVars, batchVars, beepVars>>

\* Lines 838-839.
DecodeScrypt ==
    /\ pc = "decode_scrypt"
    /\ key' = scrypt(pass_bytes_of(passphrase), salt, 32)
    /\ scrypt_calls' = Append(scrypt_calls,
                              [password |-> pass_bytes_of(passphrase), salt |-> salt])
    /\ pc' = "decode_decrypt"
    /\ UNCHANGED <<words, passphrase, caller, mtbLocals, lookups, cipher_bytes, valid,
                   raised, message, version, salt, ciphertext, decrypt_calls, plaintext,
                   result>>
    /\ UNCHANGED <<cipherVars, batchVars, beepVars>>

\* DecodeDecrypt reporting a failed decryption as InvalidMnemonicError.
DecodeDecrypt_conflated ==
    /\ pc = "decode_decrypt"
    /\ plaintext' = aez_decrypt(key, <<encode_ad(version, salt)>>, CipherTextExpansion,
                                ciphertext)
    /\ decrypt_calls' = Append(decrypt_calls,
                               [key |-> key, ad_list |-> <<encode_ad(version, salt)>>,
                                tau |-> CipherTextExpansion, ciphertext |-> ciphertext])
    /\ IF plaintext' = None \/ Len(plaintext') # DecipheredCipherSeedSize
       THEN /\ raised' = "InvalidMnemonicError"
            /\ message' = "invalid passphrase"
            /\ pc' = "decode_done"
       ELSE /\ pc' = "decode_parse"
            /\ UNCHANGED <<raised, message>>
    /\ UNCHANGED <<words, passphrase, caller, mtbLocals, lookups, cipher_bytes, valid,
                   version, salt, ciphertext, key, scrypt_calls, result>>
    /\ UNCHANGED <<cipherVars, batchVars, beepVars>>

\* Lines 840-843.
DecodeDecrypt ==
    /\ pc = "decode_decrypt"
    /\ plaintext' = aez_decrypt(key, <<encode_ad(version, salt)>>, CipherTextExpansion,
                                ciphertext)
    /\ decrypt_calls' = Append(decrypt_calls,
                               [key |-> key, ad_list |-> <<encode_ad(version, salt)>>,
                                tau |-> CipherTextExpansion, ciphertext |-> ciphertext])
    /\ IF plaintext' = None \/ Len(plaintext') # DecipheredCipherSeedSize
       THEN /\ raised' = "InvalidPassphraseError"
            /\ message' = "invalid passphrase"
            /\ pc' = "decode_done"
       ELSE /\ pc' = "decode_parse"
            /\ UNCHANGED <<raised, message>>
    /\ UNCHANGED <<words, passphrase, caller, mtbLocals, lookups, cipher_bytes, valid,
                   version, salt, ciphertext, key, scrypt_calls, result>>
    /\ UNCHANGED <<cipherVars, batchVars, beepVars>>

\* DecodeParse reading the birthday as a little-endian integer.
DecodeParse_birthday_little_endian ==
    /\ pc = "decode_parse"
    /\ result' = [entropy |-> Slice(plaintext, 3, Len(plaintext)),
                  salt |-> salt,
                  internal_version |-> plaintext[1],
                  birthday |-> plaintext[3] * 256 + plaintext[2]]
    /\ pc' = "decode_done"
    /\ UNCHANGED <<words, passphrase, caller, mtbLocals, lookups, cipher_bytes, valid,
                   raised, message, version, salt, ciphertext, key, scrypt_calls,
                   decrypt_calls, plaintext>>
    /\ UNCHANGED <<cipherVars, batchVars, beepVars>>

\* Lines 844-847.
DecodeParse ==
    /\ pc = "decode_parse"
    /\ result' = [entropy |-> Slice(plaintext, 3, Len(plaintext)),
                  salt |-> salt,
                  internal_version |-> plaintext[1],
                  birthday |-> plaintext[2] * 256 + plaintext[3]]
    /\ pc' = "decode_done"
    /\ UNCHANGED <<words, passphrase, caller, mtbLocals, lookups, cipher_bytes, valid,
                   raised, message, version, salt, ciphertext, key, scrypt_calls,
                   decrypt_calls, plaintext>>
    /\ UNCHANGED <<cipherVars, batchVars, beepVars>>

Next ==
    \/ ValidateCall
    \/ MtbEnter
    \/ MtbWord
    \/ MtbEmit
    \/ MtbNext
    \/ MtbReturn
    \/ ValidateCheck
    \/ DecodeCall
    \/ DecodeVersion
    \/ DecodeChecksum
    \/ DecodeScrypt
    \/ DecodeDecrypt
    \/ DecodeParse

\* The cipher takes no step in a codec run.
CipherIdle ==
    /\ akey = Unset /\ ad_list = <<>> /\ tau = 0 /\ data = Unset
    /\ cpc = "off"
    /\ state = AEZState
    /\ delta = Unset /\ enciphered = Unset /\ deciphered = Unset
    /\ dct = Unset /\ decrypted = Unset
    /\ nonce = None
    /\ prf_dst = Unset /\ prf_ctr = Unset /\ prf_off = 0 /\ prf_remaining = 0

Init == CodecInit /\ CipherIdle /\ BatchIdle /\ BeepIdle

Spec == Init /\ [][Next]_vars

(***************************************************************************)
(* The cipher: an _AEZState is reset and keyed, aez_hash gives the tweak   *)
(* delta, a message is enciphered into a fresh buffer and the result       *)
(* deciphered into another, and _aez_decrypt is called on a ciphertext.    *)
(***************************************************************************)
\* How many messages of each length are tried.
NumFills == 2

\* A key of n bytes; the keys tried are one of 32 bytes, which init extracts
\* through blake2b, and one of 48 bytes, which init uses as it is.
CipherKey(n) == Bytes([i \in 1..n |-> (n * 29 + i * 7) % 256], n)

CipherKeys == {CipherKey(32), CipherKey(EXTRACTED_KEY_SIZE)}

\* The associated data and tag length of a call: the decoder's shape (one
\* 6-byte string, tau = 4), two strings with tau = 16, and none with tau = 0.
Contexts ==
    { [ad_list |-> << <<0, 17, 34, 51, 68, 85>> >>, tau |-> CipherTextExpansion],
      [ad_list |-> << <<>>, Bytes([i \in 1..17 |-> 3 * i], 17) >>, tau |-> BLOCK_SIZE],
      [ad_list |-> <<>>, tau |-> 0] }

\* Message lengths on both sides of every branch of encipher: aez_tiny's
\* round counts and whitening threshold, aez_core with no fragment, a short
\* fragment, a long fragment, and more than one pair.
MessageLengths == {1, 2, 3, 15, 16, 17, 31, 32, 33, 47, 48, 64, 65}

Message(n, f) == Bytes([i \in 1..n |-> (i * (6 * f + 1) + 3 * f) % 256], n)

\* The codec takes no step in a cipher run.
CodecIdle ==
    /\ words = <<>> /\ passphrase = None
    /\ pc = "off" /\ caller = "none"
    /\ bits = 0 /\ bit_len = 0 /\ out = <<>> /\ pos = 0 /\ w = 0 /\ lookups = 0
    /\ cipher_bytes = Unset
    /\ valid = "unset"
    /\ raised = "none" /\ message = ""
    /\ version = -1 /\ salt = Unset /\ ciphertext = Unset /\ key = Unset
    /\ scrypt_calls = <<>> /\ decrypt_calls = <<>>
    /\ plaintext = Unset /\ result = NoSeed

CipherInit ==
    /\ akey \in CipherKeys
    /\ \E c \in Contexts : ad_list = c.ad_list /\ tau = c.tau
    /\ \E n \in MessageLengths, f \in 1..NumFills : data = Message(n, f)
    /\ cpc = "new"
    /\ state = AEZState
    /\ delta = Unset /\ enciphered = Unset /\ deciphered = Unset
    /\ dct = Unset /\ decrypted = Unset
    /\ nonce = None
    /\ prf_dst = Unset /\ prf_ctr = Unset /\ prf_off = 0 /\ prf_remaining = 0

\* state = _AEZState(); state.reset()
StateReset ==
    /\ cpc = "new"
    /\ state' = state_reset(state)
    /\ cpc' = "reset"
    /\ UNCHANGED <<akey, ad_list, tau, data, delta, enciphered, deciphered, dct,
                   decrypted>>
    /\ UNCHANGED <<nonce, prfVars>>
    /\ UNCHANGED <<codecVars, batchVars, beepVars>>

\* state.init(key)
StateInit ==
    /\ cpc = "reset"
    /\ state' = state_init(state, akey)
    /\ cpc' = "keyed"
    /\ UNCHANGED <<akey, ad_list, tau, data, delta, enciphered, deciphered, dct,
                   decrypted>>
    /\ UNCHANGED <<nonce, prfVars>>
    /\ UNCHANGED <<codecVars, batchVars, beepVars>>

\* Hash with I_tmp an alias of self.I[1], so that doubling I_tmp doubles the
\* state's block.
Hash_aliased_I_tmp ==
    /\ cpc \in {"keyed", "decrypted"}
    /\ delta' = aez_hash(state, nonce, ad_list, tau * 8)
    /\ state' = [state EXCEPT !.I = [@ EXCEPT ![2] = double_block(@)]]
    /\ cpc' = IF cpc = "keyed" THEN "hashed" ELSE "rehashed"
    /\ UNCHANGED <<akey, ad_list, tau, data, enciphered, deciphered, dct, decrypted>>
    /\ UNCHANGED <<nonce, prfVars>>
    /\ UNCHANGED <<codecVars, batchVars, beepVars>>

\* delta = state.aez_hash(nonce, ad_list, tau * 8): once on the fresh state,
\* and once more on the same state after the other operations have run.
Hash ==
    /\ cpc \in {"keyed", "decrypted"}
    /\ delta' = aez_hash(state, nonce, ad_list, tau * 8)
    /\ cpc' = IF cpc = "keyed" THEN "hashed" ELSE "rehashed"
    /\ UNCHANGED <<akey, ad_list, tau, data, state, enciphered, deciphered, dct,
                   decrypted>>
    /\ UNCHANGED <<nonce, prfVars>>
    /\ UNCHANGED <<codecVars, batchVars, beepVars>>

\* dst = bytearray(len(data)); state.encipher(delta, data, dst)
Encipher ==
    /\ cpc = "hashed"
    /\ enciphered' = encipher(state, delta, data, Zeros(Len(data)))
    /\ cpc' = "enciphered"
    /\ UNCHANGED <<akey, ad_list, tau, data, state, delta, deciphered, dct, decrypted>>
    /\ UNCHANGED <<nonce, prfVars>>
    /\ UNCHANGED <<codecVars, batchVars, beepVars>>

\* dst = bytearray(len(data)); state.decipher(delta, enciphered, dst)
Decipher ==
    /\ cpc = "enciphered"
    /\ deciphered' = decipher(state, delta, enciphered, Zeros(Len(enciphered)))
    /\ cpc' = "deciphered"
    /\ UNCHANGED <<akey, ad_list, tau, data, state, delta, enciphered, dct, decrypted>>
    /\ UNCHANGED <<nonce, prfVars>>
    /\ UNCHANGED <<codecVars, batchVars, beepVars>>

\* The ciphertexts handed to _aez_decrypt: the message sealed with tau zero
\* bytes, the same with one byte changed, the PRF tag of the empty message,
\* that tag with one byte changed, ciphertexts shorter than the tag, and the
\* encipherment of a short run of zeros.
Ciphertexts ==
    LET flip(s) == [s EXCEPT ![Len(s)] = (s[Len(s)] + 1) % 256]
    IN  With(encipher(state, delta, data \o Zeros(tau), Zeros(Len(data) + tau)),
             LAMBDA sealed :
        With(aez_prf(state, delta, tau, Zeros(tau)), LAMBDA tag :
            {sealed, flip(sealed), tag}
            \cup (IF tau > 0 THEN {flip(tag)} ELSE {})
            \cup {Slice(data, 0, k) : k \in {j \in 0..3 : j < tau}}
            \cup {encipher(state, delta, Zeros(k), Zeros(k)) : k \in {j \in 1..3 : j < tau}}))

\* _aez_decrypt(key, ad_list, tau, ciphertext)
Decrypt ==
    /\ cpc = "deciphered"
    /\ \E ct \in Ciphertexts :
          /\ dct' = ct
          /\ decrypted' = aez_decrypt_run(akey, ad_list, tau, ct)
    /\ cpc' = "decrypted"
    /\ UNCHANGED <<akey, ad_list, tau, data, state, delta, enciphered, deciphered>>
    /\ UNCHANGED <<nonce, prfVars>>
    /\ UNCHANGED <<codecVars, batchVars, beepVars>>

NextCipher ==
    \/ StateReset
    \/ StateInit
    \/ Hash
    \/ Encipher
    \/ Decipher
    \/ Decrypt

InitCipher == CodecIdle /\ CipherInit /\ BatchIdle /\ BeepIdle

SpecCipher == InitCipher /\ [][NextCipher]_vars

(***************************************************************************)
(* Reference definitions for the properties below: the 264-bit stream of  *)
(* a mnemonic, the bit-serial CRC, and the structural checks, each        *)
(* written from its definition and not from the code's steps.             *)
(***************************************************************************)
\* Bit j (0 = first) of the indices of ws written as 11-bit fields, most
\* significant bit first.
StreamBit(ws, j) ==
    (word_to_index[ws[(j \div BitsPerWord) + 1]]
        \div Pow2(BitsPerWord - 1 - (j % BitsPerWord))) % 2

\* Bits 8k .. 8k+7 of that stream, as a byte.
StreamByte(ws, k) ==
    128 * StreamBit(ws, 8 * k) + 64 * StreamBit(ws, 8 * k + 1)
    + 32 * StreamBit(ws, 8 * k + 2) + 16 * StreamBit(ws, 8 * k + 3)
    + 8 * StreamBit(ws, 8 * k + 4) + 4 * StreamBit(ws, 8 * k + 5)
    + 2 * StreamBit(ws, 8 * k + 6) + StreamBit(ws, 8 * k + 7)

PackedStream(ws) == Bytes([k \in 1..33 |-> StreamByte(ws, k - 1)], 33)

\* The reflected CRC, one bit at a time: polynomial 0x82F63B78, initial
\* value 0xFFFFFFFF, final XOR 0xFFFFFFFF.
RECURSIVE RefCrcBits(_, _)
RefCrcBits(reg, n) ==
    IF Len(reg) # 4 \/ n = 0 THEN reg
    ELSE RefCrcBits(IF reg[4] % 2 = 1
                    THEN XorWord(ShiftRight1(reg), <<130, 246, 59, 120>>)
                    ELSE ShiftRight1(reg),
                    n - 1)

RECURSIVE RefCrcBytes(_, _)
RefCrcBytes(reg, bytes) ==
    IF Len(reg) # 4 \/ bytes = <<>> THEN reg
    ELSE RefCrcBytes(RefCrcBits(<<reg[1], reg[2], reg[3], Xor8(reg[4], Head(bytes))>>, 8),
                     Tail(bytes))

RefCrc32c(bytes) == XorWord(RefCrcBytes(<<255, 255, 255, 255>>, bytes),
                            <<255, 255, 255, 255>>)

\* The four structural checks: 24 words, all in the word list, envelope
\* byte 0 = 0, stored CRC32C = CRC32C of bytes 0..29.
StructurallyValid(ws) ==
    /\ Len(ws) = 24
    /\ \A f \in 1..24 : ws[f] \in DOMAIN word_to_index
    /\ PackedStream(ws)[1] = 0
    /\ SubSeq(PackedStream(ws), 30, 33) = RefCrc32c(SubSeq(PackedStream(ws), 1, 29))

DecodeEnded == caller = "decode_mnemonic" /\ pc = "decode_done"

(***************************************************************************)
(* Properties of the codec, checked under Spec.                            *)
(***************************************************************************)
\* C1: decode_mnemonic makes every structural check (24 words, every word
\* in the list, envelope byte 0 = 0, stored CRC32C = computed CRC32C) before
\* it calls scrypt: when one fails the call ends with InvalidMnemonicError
\* and without a scrypt call, and a word count other than 24 is reported as
\* the length error before any word is looked up.
C1_StructuralChecksBeforeScrypt ==
    /\ scrypt_calls # <<>> => StructurallyValid(words)
    /\ (DecodeEnded /\ ~StructurallyValid(words))
          => /\ raised = "InvalidMnemonicError"
             /\ scrypt_calls = <<>>
             /\ decrypt_calls = <<>>
    /\ (DecodeEnded /\ Len(words) # 24)
          => /\ message = "aezeed mnemonics must have 24 words"
             /\ lookups = 0

\* A 24-word mnemonic of known words and version 0 was rejected for its CRC,
\* with no scrypt call.
C1_Witness ==
    /\ DecodeEnded
    /\ Len(words) = 24
    /\ raised = "InvalidMnemonicError"
    /\ message = "checksum mismatch"
    /\ scrypt_calls = <<>>

DecryptFailed == plaintext = None \/ Len(plaintext) # DecipheredCipherSeedSize

\* C2: once the structural checks have passed, decode_mnemonic raises
\* InvalidPassphraseError exactly when _aez_decrypt of the 23-byte
\* ciphertext gives None or a plaintext that is not 19 bytes long, and
\* returns a DecipheredCipherSeed otherwise; InvalidMnemonicError is never
\* raised after the scrypt call and InvalidPassphraseError never before it.
C2_PassphraseErrorIffDecryptFails ==
    /\ raised = "InvalidPassphraseError"
          => scrypt_calls # <<>> /\ decrypt_calls # <<>> /\ DecryptFailed
    /\ raised = "InvalidMnemonicError" => scrypt_calls = <<>> /\ decrypt_calls = <<>>
    /\ (DecodeEnded /\ scrypt_calls # <<>>)
          => /\ Len(decrypt_calls) = 1
             /\ Len(decrypt_calls[1].ciphertext) = 23
             /\ plaintext = aez_decrypt(decrypt_calls[1].key, decrypt_calls[1].ad_list,
                                        decrypt_calls[1].tau, decrypt_calls[1].ciphertext)
             /\ IF DecryptFailed
                THEN raised = "InvalidPassphraseError" /\ result = NoSeed
                ELSE /\ raised = "none"
                     /\ result # NoSeed
                     /\ DOMAIN result = {"entropy", "salt", "internal_version", "birthday"}

\* A structurally valid mnemonic was decoded under a wrong passphrase.
C2_Witness ==
    /\ DecodeEnded
    /\ scrypt_calls # <<>>
    /\ plaintext = None
    /\ raised = "InvalidPassphraseError"

\* C6: for 24 words of the list, the value mnemonic_to_bytes returns to
\* validate_mnemonic and to decode_mnemonic is exactly 33 bytes long, and
\* its byte k is bits 8k .. 8k+7 of the 264-bit concatenation of the
\* indices as 11-bit fields, most significant bit first.
C6_PackedBigEndian ==
    pc \in {"validate_check", "decode_version"}
       => /\ Len(cipher_bytes) = 33
          /\ \A k \in 0..32 : cipher_bytes[k + 1] = StreamByte(words, k)

\* mnemonic_to_bytes has returned the envelope of a mnemonic whose words
\* are not all the same.
C6_Witness ==
    /\ pc = "validate_check"
    /\ cipher_bytes = PackedStream(words)
    /\ \E f \in 2..24 : words[f] # words[1]

\* C7: with word_to_index a bijection onto 0..2047, re-reading the envelope
\* that mnemonic_to_bytes returns as 24 consecutive 11-bit big-endian fields gives back the indices of the
\* words, hence the words, so no two word sequences share an envelope; and
\* packing the fields re-read from the envelope gives back the envelope.
C7_PackingInvertible ==
    pc \in {"validate_check", "decode_version"}
       => /\ \A f \in 0..23 : FieldValue(cipher_bytes, f, 0) = word_to_index[words[f + 1]]
          /\ EnvelopeWords(cipher_bytes) = words
          /\ PackedStream(EnvelopeWords(cipher_bytes)) = cipher_bytes

\* decode_mnemonic holds the envelope of a mnemonic that uses an index of
\* 1024 or more, and the fields re-read from it are the words.
C7_Witness ==
    /\ pc = "decode_version"
    /\ \E f \in 1..24 : words[f] > 1024
    /\ EnvelopeWords(cipher_bytes) = words

\* C8: the table-driven _crc32c equals the bit-serial reflected CRC with
\* polynomial 0x82F63B78, initial value 0xFFFFFFFF and final XOR 0xFFFFFFFF
\* on every prefix of every envelope the codec checks, its result is a
\* 32-bit value (four bytes), and _crc32c("123456789") = 0xE3069283.
C8_TableDrivenEqualsBitSerial ==
    pc \in {"validate_check", "decode_checksum"}
       => /\ crc32c(<<49, 50, 51, 52, 53, 54, 55, 56, 57>>) = <<227, 6, 146, 131>>
          /\ \A n \in 0..Len(cipher_bytes) :
                /\ crc32c(SubSeq(cipher_bytes, 1, n)) = RefCrc32c(SubSeq(cipher_bytes, 1, n))
                /\ Len(crc32c(SubSeq(cipher_bytes, 1, n))) = 4
                /\ \A i \in 1..4 : crc32c(SubSeq(cipher_bytes, 1, n))[i] \in 0..255

\* decode_mnemonic is at its checksum comparison and the CRC32C it computes
\* is the one stored in the envelope.
C8_Witness ==
    /\ pc = "decode_checksum"
    /\ crc32c(SubSeq(cipher_bytes, 1, 29)) = SubSeq(cipher_bytes, 30, 33)

\* C9: validate_mnemonic never raises and never calls the KDF; it returns
\* True exactly for the word sequences that pass the structural checks,
\* which are those on which decode_mnemonic reaches its scrypt call, and
\* False exactly for those on which decode_mnemonic raises
\* InvalidMnemonicError.
C9_ValidateAgreesWithDecode ==
    /\ caller = "validate_mnemonic"
          => raised = "none" /\ scrypt_calls = <<>> /\ decrypt_calls = <<>>
    /\ pc = "validate_done"
          => valid = (IF StructurallyValid(words) THEN "True" ELSE "False")
    /\ scrypt_calls # <<>> => valid = "True"
    /\ raised = "InvalidMnemonicError" => valid = "False"
    /\ DecodeEnded
          => /\ valid = "True" <=> scrypt_calls # <<>>
             /\ valid = "False" <=> raised = "InvalidMnemonicError"

\* validate_mnemonic returned False for a 24-word mnemonic whose CRC is
\* right and whose version byte is not 0, and decode_mnemonic rejected it.
C9_Witness ==
    /\ DecodeEnded
    /\ valid = "False"
    /\ raised = "InvalidMnemonicError"
    /\ message = "unsupported aezeed version"

\* C10: a decode_mnemonic call that passes the structural checks takes the
\* scrypt salt from envelope[24..29), the ciphertext from envelope[1..24),
\* hands _aez_decrypt the one 6-byte AD envelope[0] || envelope[24..29) and
\* tau = 4, which aez_hash receives as 32; no byte of envelope[29..33)
\* enters the salt, the ciphertext or the AD.
C10_FieldsAtWireOffsets ==
    /\ scrypt_calls # <<>>
          => /\ Len(cipher_bytes) = 33
             /\ Len(scrypt_calls) = 1
             /\ scrypt_calls[1].salt = SubSeq(cipher_bytes, 25, 29)
    /\ decrypt_calls # <<>>
          => LET call == decrypt_calls[1]
             IN  /\ call.ciphertext = SubSeq(cipher_bytes, 2, 24)
                 /\ call.ad_list = << <<cipher_bytes[1]>> \o SubSeq(cipher_bytes, 25, 29) >>
                 /\ call.tau = 4
                 /\ call.key = key
                 /\ aez_decrypt_run(call.key, call.ad_list, call.tau, call.ciphertext).delta
                       = aez_hash(state_init(state_reset(AEZState), call.key), None,
                                  call.ad_list, 32)

\* A decode has run to its end and returned the seed whose salt is
\* envelope[24..29).
C10_Witness ==
    /\ DecodeEnded
    /\ decrypt_calls # <<>>
    /\ result # NoSeed
    /\ result.salt = SubSeq(cipher_bytes, 25, 29)

(***************************************************************************)
(* Properties of the cipher, checked under SpecCipher.                     *)
(***************************************************************************)
\* C3: _aez_decrypt returns None exactly when the tag check fails, and the
\* plaintext otherwise.  When |C| = tau the check compares the tau-byte PRF
\* stream with C and success gives the empty plaintext; when |C| # tau the
\* check fails when one of the last tau bytes of x = decipher(delta, C) is
\* not zero and success gives x[0 .. |C| - tau).  All tau bytes are read
\* before the decision.
C3_DecryptReturnsNoneIffTagFails ==
    cpc = "decrypted"
       => LET n == Len(dct)
              x == decrypted.x
          IN  IF n = tau
              THEN /\ x = aez_prf(state, delta, tau, Zeros(n))
                   /\ decrypted.result = IF x # dct THEN None ELSE <<>>
                   /\ decrypted.reads = tau
              ELSE /\ x = decipher(state, delta, dct, Zeros(n))
                   /\ decrypted.result
                         = IF \E i \in 1..n : i > n - tau /\ x[i] # 0
                           THEN None
                           ELSE SubSeq(x, 1, n - tau)
                   /\ decrypted.reads = tau

\* C4: for a keyed state, a delta and a message of 1 to 31 bytes, decipher
\* gives back the message that encipher was given: aez_tiny with direction
\* 1 inverts aez_tiny with direction 0.
C4_TinyRoundTrip ==
    (cpc \in {"deciphered", "decrypted"} /\ Len(data) < 32)
       => /\ Len(enciphered) = Len(data)
          /\ deciphered = data

\* A 15-byte message (odd length, under the whitening threshold) was
\* enciphered to something else and deciphered back.
C4_Witness ==
    /\ cpc = "deciphered"
    /\ Len(data) = 15
    /\ enciphered # data
    /\ deciphered = data

\* C5: for a keyed state, a delta and a message of 32 bytes or more,
\* decipher into a fresh buffer gives back the message that encipher, into
\* a fresh buffer, was given: aez_core with direction 1 inverts aez_core
\* with direction 0.
C5_CoreRoundTrip ==
    (cpc \in {"deciphered", "decrypted"} /\ Len(data) >= 32)
       => /\ Len(enciphered) = Len(data)
          /\ deciphered = data

(***************************************************************************)
(* The returned seed and the scrypt password, checked under Spec.          *)
(***************************************************************************)
\* C11: whenever decode_mnemonic returns, the result is parsed from the
\* 19-byte plaintext at the wire offsets: internal_version = plaintext[0],
\* birthday = 256 * plaintext[1] + plaintext[2], which lies in 0..65535,
\* entropy = plaintext[3..19), exactly 16 bytes, and the returned salt is
\* the 5 bytes envelope[24..29).
C11_ResultParsedAtWireOffsets ==
    (DecodeEnded /\ raised = "none")
       => /\ result # NoSeed
          /\ Len(plaintext) = 19
          /\ result.internal_version = plaintext[1]
          /\ result.birthday = 256 * plaintext[2] + plaintext[3]
          /\ result.birthday \in 0..65535
          /\ result.entropy = SubSeq(plaintext, 4, 19)
          /\ Len(result.entropy) = 16
          /\ result.salt = SubSeq(cipher_bytes, 25, 29)
          /\ Len(result.salt) = 5

\* decode_mnemonic has returned a seed whose birthday has two different
\* bytes, the high one not zero.
C11_Witness ==
    /\ DecodeEnded
    /\ raised = "none"
    /\ result # NoSeed
    /\ result.birthday > 255
    /\ plaintext[2] # plaintext[3]
    /\ Len(result.entropy) = 16

\* The UTF-8 bytes of each user passphrase tried, written out; nothing for
\* an absent passphrase.
PassphraseUtf8(p) ==
    CASE p = None -> <<>>
      [] p = <<>> -> <<>>
      [] p = <<112, 119>> -> <<112, 119>>
      [] p = <<233, 8364>> -> <<195, 169, 226, 130, 172>>

\* C12: the password handed to scrypt is the UTF-8 encoding of "aezeed"
\* followed by the user passphrase: the prefix is there for every
\* passphrase, a user passphrase never replaces it, and an absent or empty
\* passphrase both give exactly the bytes of "aezeed" and so the same key.
C12_ScryptPasswordIsPrefixedPassphrase ==
    scrypt_calls # <<>>
       => /\ Len(scrypt_calls) = 1
          /\ scrypt_calls[1].password
                = <<97, 101, 122, 101, 101, 100>> \o PassphraseUtf8(passphrase)
          /\ Len(scrypt_calls[1].password) >= 6
          /\ SubSeq(scrypt_calls[1].password, 1, 6) = <<97, 101, 122, 101, 101, 100>>
          /\ passphrase \in {None, <<>>}
                => /\ scrypt_calls[1].password = <<97, 101, 122, 101, 101, 100>>
                   /\ key = scrypt(<<97, 101, 122, 101, 101, 100>>, scrypt_calls[1].salt, 32)

\* scrypt was called for a decode with a passphrase of two non-ASCII
\* characters, on "aezeed" followed by their five UTF-8 bytes.
C12_Witness ==
    /\ scrypt_calls # <<>>
    /\ passphrase = <<233, 8364>>
    /\ scrypt_calls[1].password
          = <<97, 101, 122, 101, 101, 100, 195, 169, 226, 130, 172>>

(***************************************************************************)
(* The life of an _AEZState, checked under SpecCipher.                     *)
(***************************************************************************)
\* C13: when _aez_decrypt returns, with a plaintext or with None, reset has
\* run after the last cryptographic operation on its state, so all I, J and
\* L blocks and both AES round-key schedules of that state are zero.
C13_StateZeroedOnReturn ==
    cpc \in {"decrypted", "rehashed"}
       => /\ \A k \in 1..2 : decrypted.state.I[k] = ZERO_BLOCK
          /\ \A k \in 1..3 : decrypted.state.J[k] = ZERO_BLOCK
          /\ \A k \in 1..8 : decrypted.state.L[k] = ZERO_BLOCK
          /\ \A i \in 1..Len(decrypted.state.aes.aes10_key) :
                decrypted.state.aes.aes10_key[i] = ZeroWord
          /\ \A i \in 1..Len(decrypted.state.aes.aes4_key) :
                decrypted.state.aes.aes4_key[i] = ZeroWord

C19_CoreFillsOutputBuffer ==
    (cpc \in {"enciphered", "deciphered"} /\ Len(data) >= 32)
       => LET n == Len(data)
              frag_bytes == n % 32
              initial_bytes == n - frag_bytes - 32
              run == aez_core_run(state, delta, data, 0, Zeros(n))
          IN  /\ Len(enciphered) = n
              /\ Slice(enciphered, n - 32, n) = run.dst_tail
              /\ Slice(enciphered, initial_bytes, initial_bytes + frag_bytes)
                    = Slice(run.dst_fragment, 0, frag_bytes)
              /\ Slice(enciphered, 0, initial_bytes) = Slice(run.dst, 0, initial_bytes)
              /\ aez_core(state, delta, data, 0, Bytes([i \in 1..n |-> 170], n))
                    = enciphered

\* C20: the fragment's contribution to X reads only fragment bytes: for
\* frag >= 16 it is AES4(0, I1, L4, frag[0..16]) xor AES4(0, I1, L5,
\* one_zero_pad(frag[16..], frag - 16)), for 0 < frag < 16 it is
\* AES4(0, I1, L4, one_zero_pad(frag, frag)), and no byte of the final
\* 32-byte pair enters it.
C20_FragmentTermReadsFragmentOnly ==
    (cpc \in {"enciphered", "deciphered"} /\ Len(data) >= 32)
       => LET n == Len(data)
              frag_bytes == n % 32
              initial_bytes == n - frag_bytes - 32
              frag == Slice(data, initial_bytes, initial_bytes + frag_bytes)
              X1 == IF n >= 64
                    THEN aez_core_pass1(state, data, Zeros(n), mk_block).X
                    ELSE mk_block
              term == IF frag_bytes >= BLOCK_SIZE
                      THEN xor_bytes1x16(
                               AES4(state.aes, ZERO_BLOCK, state.I[2], state.L[5],
                                    Slice(frag, 0, BLOCK_SIZE)),
                               AES4(state.aes, ZERO_BLOCK, state.I[2], state.L[6],
                                    one_zero_pad(Slice(frag, BLOCK_SIZE, frag_bytes),
                                                 frag_bytes - BLOCK_SIZE)))
                      ELSE IF frag_bytes > 0
                      THEN AES4(state.aes, ZERO_BLOCK, state.I[2], state.L[5],
                                one_zero_pad(frag, frag_bytes))
                      ELSE ZERO_BLOCK
          IN  /\ aez_core_run(state, delta, data, 0, Zeros(n)).X = xor_bytes1x16(X1, term)
              /\ aez_core_run(state, delta,
                              Slice(data, 0, n - 32) \o Zeros(32), 0, Zeros(n)).X
                    = aez_core_run(state, delta, data, 0, Zeros(n)).X

(***************************************************************************)
(* The batch runner: seedrecover_batch.py run as a script.  btcrseed.main  *)
(* is outside the model: a call to it ends by raising an Exception or by   *)
(* returning a mnemonic, None, or a false value that is not None.  The     *)
(* alert functions the script calls do nothing, _beep_enabled being False. *)
(***************************************************************************)
\* The longest batch file, and how many lines other workers append to the
\* progress file during the run.
MaxLines == 3
MaxForeign == 1

\* Lines of a batch file: a seed, a seed followed by a comment, an indented
\* comment, a blank line.
BatchLines == {<<"a">>, <<"b", " ", "#", "a">>, <<" ", "#", "a">>, <<>>}

\* The progress file a run starts with: missing or empty, one line, an
\* ERROR line before and after a CHECKED line of the same seed, a MATCHED
\* line, a line of one field, ERROR lines only.
ProgressFiles ==
    { <<>>,
      << <<"CHECKED", <<"a">>>> >>,
      << <<"ERROR", <<"a">>>> >>,
      << <<"ERROR", <<"a">>>>, <<"CHECKED", <<"a">>>> >>,
      << <<"CHECKED", <<"a">>>>, <<"ERROR", <<"a">>>> >>,
      << <<"MATCHED", <<"b">>>> >>,
      << <<"ERROR">>, <<"CHECKED", <<"b">>>> >>,
      << <<"ERROR", <<"a">>>>, <<"ERROR", <<"b">>>> >> }

ForeignLines == {<<"CHECKED", <<"a">>>>, <<"MATCHED", <<"b">>>>}

SeqsUpTo(S, n) == UNION {[1..k -> S] : k \in 0..n}

\* --batch-worker IDS/TOTAL as the integers it spells, or not given.
WorkerArgs ==
    {[given |-> FALSE, ids |-> <<>>, total |-> 0],
     [given |-> TRUE, ids |-> <<2>>, total |-> 2],
     [given |-> TRUE, ids |-> <<1, 3>>, total |-> 3]}

\* Values _parse_batch_arguments refuses: an ID below 1, an ID above TOTAL,
\* a TOTAL below 2.
RefusedWorkerArgs ==
    {[given |-> TRUE, ids |-> <<0>>, total |-> 2],
     [given |-> TRUE, ids |-> <<3>>, total |-> 2],
     [given |-> TRUE, ids |-> <<1>>, total |-> 1]}

BatchInit ==
    /\ \/ /\ argv \in [batch_worker : WorkerArgs, batch_skip_completed : BOOLEAN,
                       batch_reverse : BOOLEAN]
          /\ batch_file \in SeqsUpTo(BatchLines, MaxLines) \ {<<>>}
          /\ progress_file \in ProgressFiles
       \/ /\ argv \in [batch_worker : RefusedWorkerArgs, batch_skip_completed : {FALSE},
                       batch_reverse : {FALSE}]
          /\ batch_file = << <<"a">> >>
          /\ progress_file = <<>>
    /\ bpc = "parse"
    /\ worker_ids = None /\ workers_total = 0 /\ skip_completed = FALSE
    /\ batch_seed_list = <<>> /\ completed_seeds = {} /\ seed_index = 0
    /\ retval = 0 /\ match_found = FALSE /\ line_index = 0 /\ seed_to_try = None
    /\ started_with = <<>> /\ handled = <<>> /\ appended = <<>>
    /\ foreign_lines = 0

batchLoopVars == <<completed_seeds, seed_index, retval, match_found, line_index,
                   seed_to_try, handled, appended>>

\* list(reversed(batch_seed_list))
reversed(s) == [k \in 1..Len(s) |-> s[Len(s) + 1 - k]]

\* _parse_batch_arguments (lines 83-119): parser.error ends the run.
ParseArguments ==
    /\ bpc = "parse"
    /\ LET arg == argv.batch_worker
           ids == [k \in 1..Len(arg.ids) |-> arg.ids[k] - 1]
       IN  IF arg.given /\ (\/ arg.total < 2
                          \/ (\E k \in 1..Len(ids) : ids[k] < 0)
                          \/ (\E j \in 1..Len(ids) : ids[j] >= arg.total))
           THEN /\ bpc' = "usage_error"
                /\ UNCHANGED <<worker_ids, workers_total, skip_completed>>
           ELSE /\ bpc' = "load"
                /\ worker_ids' = IF arg.given THEN ids ELSE None
                /\ workers_total' = IF arg.given THEN arg.total ELSE 0
                /\ skip_completed' = argv.batch_skip_completed
    /\ UNCHANGED <<argv, batch_file, progress_file, batch_seed_list, started_with,
                   foreign_lines>>
    /\ UNCHANGED batchLoopVars
    /\ UNCHANGED <<codecVars, cipherVars, beepVars>>

\* LoadBatch reading the completed seeds with the last line of a seed
\* deciding.
LoadBatch_last_line_wins ==
    /\ bpc = "load"
    /\ batch_seed_list' = IF argv.batch_reverse THEN reversed(batch_file) ELSE batch_file
    /\ completed_seeds' = IF skip_completed
                          THEN load_completed_seeds_last_wins(progress_file) ELSE {}
    /\ started_with' = progress_file
    /\ seed_index' = 0 /\ retval' = 0 /\ match_found' = FALSE
    /\ line_index' = 0
    /\ bpc' = "loop"
    /\ UNCHANGED <<argv, batch_file, progress_file, worker_ids, workers_total,
                   skip_completed, seed_to_try, handled, appended, foreign_lines>>
    /\ UNCHANGED <<codecVars, cipherVars, beepVars>>

\* Lines 235-251: the batch file is read and put in processing order, the
\* completed seeds are loaded from the progress file if they are to be
\* skipped.
LoadBatch ==
    /\ bpc = "load"
    /\ batch_seed_list' = IF argv.batch_reverse THEN reversed(batch_file) ELSE batch_file
    /\ completed_seeds' = IF skip_completed
                          THEN load_completed_seeds(progress_file) ELSE {}
    /\ started_with' = progress_file
    /\ seed_index' = 0 /\ retval' = 0 /\ match_found' = FALSE
    /\ line_index' = 0
    /\ bpc' = "loop"
    /\ UNCHANGED <<argv, batch_file, progress_file, worker_ids, workers_total,
                   skip_completed, seed_to_try, handled, appended, foreign_lines>>
    /\ UNCHANGED <<codecVars, cipherVars, beepVars>>

batchSetupVars == <<argv, batch_file, worker_ids, workers_total, skip_completed,
                    batch_seed_list, started_with>>

\* The line the for loop takes next.
mnemonic == batch_seed_list[line_index + 1]

AtLine == bpc = "loop" /\ line_index < Len(batch_seed_list)

\* What the loop did with a seed line: the line, its seed, seed_index when
\* the line was taken, and how many progress lines the run had appended.
Handled(did) ==
    [line |-> line_index + 1, seed |-> seed_of(mnemonic), seed_index |-> seed_index,
     did |-> did, appended |-> Len(appended)]

\* The for loop is exhausted: lines 384-393 run and end in sys.exit(retval).
LoopEnd ==
    /\ bpc = "loop"
    /\ line_index = Len(batch_seed_list)
    /\ bpc' = "exited"
    /\ UNCHANGED <<progress_file, foreign_lines>>
    /\ UNCHANGED batchSetupVars
    /\ UNCHANGED batchLoopVars
    /\ UNCHANGED <<codecVars, cipherVars, beepVars>>

\* Lines 254-257, and after the break lines 384-393.
StopOnRecordedMatch ==
    /\ AtLine
    /\ progress_contains_match(progress_file)
    /\ retval' = 0
    /\ bpc' = "exited"
    /\ UNCHANGED <<progress_file, foreign_lines, completed_seeds, seed_index,
                   match_found, line_index, seed_to_try, handled, appended>>
    /\ UNCHANGED batchSetupVars
    /\ UNCHANGED <<codecVars, cipherVars, beepVars>>

\* Lines 262-264.
SkipBlankOrComment ==
    /\ AtLine
    /\ ~progress_contains_match(progress_file)
    /\ blank_or_comment(mnemonic)
    /\ line_index' = line_index + 1
    /\ UNCHANGED <<bpc, progress_file, foreign_lines, completed_seeds, seed_index,
                   retval, match_found, seed_to_try, handled, appended>>
    /\ UNCHANGED batchSetupVars
    /\ UNCHANGED <<codecVars, cipherVars, beepVars>>

\* SkipCompleted leaving seed_index as it is.
SkipCompleted_uncounted ==
    /\ AtLine
    /\ ~progress_contains_match(progress_file)
    /\ ~blank_or_comment(mnemonic)
    /\ skip_completed /\ seed_of(mnemonic) \in completed_seeds
    /\ line_index' = line_index + 1
    /\ handled' = Append(handled, Handled("skipped"))
    /\ UNCHANGED <<bpc, progress_file, foreign_lines, completed_seeds, seed_index,
                   retval, match_found, seed_to_try, appended>>
    /\ UNCHANGED batchSetupVars
    /\ UNCHANGED <<codecVars, cipherVars, beepVars>>

\* Lines 266-271.
SkipCompleted ==
    /\ AtLine
    /\ ~progress_contains_match(progress_file)
    /\ ~blank_or_comment(mnemonic)
    /\ skip_completed /\ seed_of(mnemonic) \in completed_seeds
    /\ seed_index' = seed_index + 1
    /\ line_index' = line_index + 1
    /\ handled' = Append(handled, Handled("skipped"))
    /\ UNCHANGED <<bpc, progress_file, foreign_lines, completed_seeds, retval,
                   match_found, seed_to_try, appended>>
    /\ UNCHANGED batchSetupVars
    /\ UNCHANGED <<codecVars, cipherVars, beepVars>>

\* The seed line is one this run works on, as lines 268 and 273-274 decide.
Mine ==
    /\ ~(skip_completed /\ seed_of(mnemonic) \in completed_seeds)
    /\ worker_ids # None
          => \E k \in 1..Len(worker_ids) : worker_ids[k] = seed_index % workers_total

\* Lines 273-276.
SkipOtherWorker ==
    /\ AtLine
    /\ ~progress_contains_match(progress_file)
    /\ ~blank_or_comment(mnemonic)
    /\ ~(skip_completed /\ seed_of(mnemonic) \in completed_seeds)
    /\ ~Mine
    /\ seed_index' = seed_index + 1
    /\ line_index' = line_index + 1
    /\ handled' = Append(handled, Handled("left"))
    /\ UNCHANGED <<bpc, progress_file, foreign_lines, completed_seeds, retval,
                   match_found, seed_to_try, appended>>
    /\ UNCHANGED batchSetupVars
    /\ UNCHANGED <<codecVars, cipherVars, beepVars>>

\* Lines 278-287: btcrseed.main is called on the seed.
InvokeMain ==
    /\ AtLine
    /\ ~progress_contains_match(progress_file)
    /\ ~blank_or_comment(mnemonic)
    /\ Mine
    /\ seed_index' = seed_index + 1
    /\ line_index' = line_index + 1
    /\ seed_to_try' = seed_of(mnemonic)
    /\ handled' = Append(handled, Handled("invoked"))
    /\ bpc' = "in_main"
    /\ UNCHANGED <<progress_file, foreign_lines, completed_seeds, retval, match_found,
                   appended>>
    /\ UNCHANGED batchSetupVars
    /\ UNCHANGED <<codecVars, cipherVars, beepVars>>

\* An _append_progress call: the status, the seed, and how the call to
\* btcrseed.main had ended.
Appended(status, ended) == [status |-> status, seed |-> seed_to_try, ended |-> ended]

\* Lines 288-297: the call raised.
MainRaised ==
    /\ bpc = "in_main"
    /\ progress_file' = append_progress(progress_file, seed_to_try, "ERROR")
    /\ appended' = Append(appended, Appended("ERROR", "raised"))
    /\ bpc' = "loop"
    /\ UNCHANGED <<foreign_lines, completed_seeds, seed_index, retval, match_found,
                   line_index, seed_to_try, handled>>
    /\ UNCHANGED batchSetupVars
    /\ UNCHANGED <<codecVars, cipherVars, beepVars>>

\* MainMatched with the loop going on to the next line.
MainMatched_continuing ==
    /\ bpc = "in_main"
    /\ match_found' = TRUE
    /\ progress_file' = append_progress(progress_file, seed_to_try, "MATCHED")
    /\ appended' = Append(appended, Appended("MATCHED", "mnemonic"))
    /\ completed_seeds' = IF skip_completed THEN completed_seeds \cup {seed_to_try}
                          ELSE completed_seeds
    /\ retval' = 0
    /\ bpc' = "loop"
    /\ UNCHANGED <<foreign_lines, seed_index, line_index, seed_to_try, handled>>
    /\ UNCHANGED batchSetupVars
    /\ UNCHANGED <<codecVars, cipherVars, beepVars>>

\* Lines 299-356: the call returned a mnemonic; after the break lines
\* 384-393 run and end in sys.exit(retval).
MainMatched ==
    /\ bpc = "in_main"
    /\ match_found' = TRUE
    /\ progress_file' = append_progress(progress_file, seed_to_try, "MATCHED")
    /\ appended' = Append(appended, Appended("MATCHED", "mnemonic"))
    /\ completed_seeds' = IF skip_completed THEN completed_seeds \cup {seed_to_try}
                          ELSE completed_seeds
    /\ retval' = 0
    /\ bpc' = "exited"
    /\ UNCHANGED <<foreign_lines, seed_index, line_index, seed_to_try, handled>>
    /\ UNCHANGED batchSetupVars
    /\ UNCHANGED <<codecVars, cipherVars, beepVars>>

\* Lines 358-366: the call returned None.
MainReturnedNone ==
    /\ bpc = "in_main"
    /\ progress_file' = append_progress(progress_file, seed_to_try, "ERROR")
    /\ appended' = Append(appended, Appended("ERROR", "None"))
    /\ retval' = 1
    /\ bpc' = "loop"
    /\ UNCHANGED <<foreign_lines, completed_seeds, seed_index, match_found, line_index,
                   seed_to_try, handled>>
    /\ UNCHANGED batchSetupVars
    /\ UNCHANGED <<codecVars, cipherVars, beepVars>>

\* Lines 368-378: the call returned a false value that is not None.
MainNotFound ==
    /\ bpc = "in_main"
    /\ progress_file' = append_progress(progress_file, seed_to_try, "CHECKED")
    /\ appended' = Append(appended, Appended("CHECKED", "False"))
    /\ completed_seeds' = IF skip_completed THEN completed_seeds \cup {seed_to_try}
                          ELSE completed_seeds
    /\ retval' = 0
    /\ bpc' = "loop"
    /\ UNCHANGED <<foreign_lines, seed_index, match_found, line_index, seed_to_try,
                   handled>>
    /\ UNCHANGED batchSetupVars
    /\ UNCHANGED <<codecVars, cipherVars, beepVars>>

\* Another worker, run on the same progress file, appends a line while this
\* run's btcrseed.main call is searching.
OtherWorkerAppends ==
    /\ bpc = "in_main"
    /\ foreign_lines < MaxForeign
    /\ \E parts \in ForeignLines : progress_file' = Append(progress_file, parts)
    /\ foreign_lines' = foreign_lines + 1
    /\ UNCHANGED bpc
    /\ UNCHANGED batchSetupVars
    /\ UNCHANGED batchLoopVars
    /\ UNCHANGED <<codecVars, cipherVars, beepVars>>

NextBatch ==
    \/ ParseArguments
    \/ LoadBatch
    \/ LoopEnd
    \/ StopOnRecordedMatch
    \/ SkipBlankOrComment
    \/ SkipCompleted
    \/ SkipOtherWorker
    \/ InvokeMain
    \/ MainRaised
    \/ MainMatched
    \/ MainReturnedNone
    \/ MainNotFound
    \/ OtherWorkerAppends

InitBatch == CodecIdle /\ CipherIdle /\ BeepIdle /\ BatchInit

SpecBatch == InitBatch /\ [][NextBatch]_vars

(***************************************************************************)
(* Properties of the batch runner, checked under SpecBatch.                *)
(***************************************************************************)
\* The seeds some line of a progress file records as CHECKED or MATCHED.
RecordedDone(lines) ==
    {lines[k][2] : k \in {j \in 1..Len(lines) :
                             Len(lines[j]) >= 2 /\ lines[j][1] \in {"CHECKED", "MATCHED"}}}

\* The seeds this run had recorded as CHECKED or MATCHED with its first m
\* progress lines.
OwnDone(m) ==
    {appended[k].seed : k \in {j \in 1..m : appended[j].status \in {"CHECKED", "MATCHED"}}}

\* C15: with --batch-skip-completed the runner skips a seed line, calling
\* btcrseed.main not at all for it, exactly when some line of the progress
\* file recorded the seed as CHECKED or MATCHED when the run started or the
\* run itself has recorded it so before; ERROR lines alone do not make a
\* seed skipped, nor do ERROR lines before or after a CHECKED or MATCHED
\* line cancel it; without the flag no seed line is skipped as completed.
C15_SkippedIffCompleted ==
    \A h \in 1..Len(handled) :
        LET e == handled[h]
        IN  /\ e.did = "skipped"
                  <=> /\ argv.batch_skip_completed
                      /\ e.seed \in RecordedDone(started_with) \cup OwnDone(e.appended)
            /\ (e.did # "skipped" /\ ~argv.batch_worker.given) => e.did = "invoked"

\* A seed line was skipped that the progress file recorded only with an
\* ERROR line when the run started: the run itself had recorded it CHECKED.
C15_Witness ==
    \E h \in 1..Len(handled) :
        /\ handled[h].did = "skipped"
        /\ handled[h].seed \notin RecordedDone(started_with)
        /\ \E k \in 1..Len(started_with) :
              started_with[k] = <<"ERROR", handled[h].seed>>
        /\ handled[h].seed \in OwnDone(handled[h].appended)

\* The seed lines on which btcrseed.main was called, in order.
Invoked ==
    LET called(e) == e.did = "invoked"
    IN  SelectSeq(handled, called)

\* C16: for every seed on which the runner calls btcrseed.main exactly one
\* progress line is appended, after the call has ended: MATCHED iff a
\* mnemonic was returned, CHECKED iff a false value other than None was
\* returned, ERROR iff the call raised or returned None.  No line is written
\* for a seed whose search has not returned, and after a MATCHED result the
\* run starts no further seed.
C16_OneLinePerCall ==
    /\ Len(appended) = Len(Invoked) - (IF bpc = "in_main" THEN 1 ELSE 0)
    /\ bpc \notin {"off", "parse", "load", "usage_error"}
          => Len(progress_file) = Len(started_with) + Len(appended) + foreign_lines
    /\ \A k \in 1..Len(appended) :
          /\ appended[k].seed = Invoked[k].seed
          /\ Invoked[k].appended = k - 1
          /\ appended[k].status = "MATCHED" <=> appended[k].ended = "mnemonic"
          /\ appended[k].status = "CHECKED" <=> appended[k].ended = "False"
          /\ appended[k].status = "ERROR" <=> appended[k].ended \in {"raised", "None"}
          /\ \E j \in (Len(started_with) + 1)..Len(progress_file) :
                progress_file[j] = <<appended[k].status, appended[k].seed>>
          /\ appended[k].status = "MATCHED"
                => /\ k = Len(appended)
                   /\ k = Len(Invoked)
                   /\ bpc = "exited"

\* A run has ended after three calls: one raised, one found nothing, one
\* returned a mnemonic.
C16_Witness ==
    /\ bpc = "exited"
    /\ Len(appended) = 3
    /\ appended[1].ended = "raised" /\ appended[1].status = "ERROR"
    /\ appended[2].ended = "False" /\ appended[2].status = "CHECKED"
    /\ appended[3].ended = "mnemonic" /\ appended[3].status = "MATCHED"

\* How many seed lines come before line i in processing order.
SeedOrdinal(i) ==
    Cardinality({j \in 1..(i - 1) : ~blank_or_comment(batch_seed_list[j])})

\* C17: with --batch-worker IDs/TOTAL the n-th seed line in processing
\* order, n counted from 0 over the lines that are neither blank nor
\* comments and counting those skipped as completed, is worked on only by a
\* worker one of whose IDs is (n mod TOTAL) + 1, and by that worker unless
\* it skips the line as completed; n does not depend on the progress file,
\* and exactly one of the IDs 1..TOTAL is (n mod TOTAL) + 1.
C17_WorkerNumbering ==
    \A h \in 1..Len(handled) :
        LET e == handled[h]
            n == SeedOrdinal(e.line)
            total == argv.batch_worker.total
            ids == argv.batch_worker.ids
        IN  /\ e.seed_index = n
            /\ ~argv.batch_worker.given => e.did # "left"
            /\ argv.batch_worker.given
                  => /\ e.did = "invoked" => \E k \in 1..Len(ids) : ids[k] = (n % total) + 1
                     /\ e.did = "left" => \A k \in 1..Len(ids) : ids[k] # (n % total) + 1
                     /\ Cardinality({id \in 1..total : id = (n % total) + 1}) = 1

\* A worker with the IDs 1 and 3 of 3 skipped seed line 0 as completed,
\* left seed line 1 to the worker with ID 2, and ran seed line 2.
C17_Witness ==
    /\ argv.batch_worker = [given |-> TRUE, ids |-> <<1, 3>>, total |-> 3]
    /\ Len(handled) = 3
    /\ handled[1].did = "skipped"
    /\ handled[2].did = "left"
    /\ handled[3].did = "invoked"
    /\ handled[3].seed_index = 2

(***************************************************************************)
(* The success alert: a caller of set_beep_on_find, start_success_beep and *)
(* stop_success_beep, and the threads running _beep_loop.  The loop reads  *)
(* the module global _success_beep_stop_event each time round.             *)
(***************************************************************************)
beepGhostVars == <<stop_seen, beeps_left>>

\* A thread that start_success_beep started and that has not ended.
Running(t) == tpc[t] \in {"emit", "check", "wait"}

\* set_beep_on_find(True), lines 273-279.
EnableBeep ==
    /\ apc = "idle"
    /\ ~beep_enabled
    /\ beep_enabled' = TRUE
    /\ UNCHANGED <<stop_event, beep_thread, event_set, tpc, t_index, t_event, apc>>
    /\ UNCHANGED beepGhostVars
    /\ UNCHANGED <<codecVars, cipherVars, batchVars>>

\* start_success_beep, lines 282-303, when it does not return at line 288:
\* a new Event, and a new Thread that is started.
StartSuccessBeep ==
    /\ apc = "idle"
    /\ beep_enabled /\ beep_thread = 0
    /\ \E t \in Threads :
          /\ tpc[t] = "none"
          /\ \A u \in Threads : u < t => tpc[u] # "none"
          /\ stop_event' = t
          /\ beep_thread' = t
          /\ tpc' = [tpc EXCEPT ![t] = "emit"]
    /\ UNCHANGED <<beep_enabled, event_set, t_index, t_event, apc>>
    /\ UNCHANGED beepGhostVars
    /\ UNCHANGED <<codecVars, cipherVars, batchVars>>

\* stop_success_beep, lines 311-314, called directly or by
\* set_beep_on_find(False): the event is set and the thread joined for at
\* most 0.1 s.
StopSignal ==
    /\ apc = "idle"
    /\ \E disabling \in BOOLEAN :
          beep_enabled' = IF disabling THEN FALSE ELSE beep_enabled
    /\ event_set' = IF stop_event # 0 THEN [event_set EXCEPT ![stop_event] = TRUE]
                    ELSE event_set
    /\ apc' = "stop_clear"
    /\ stop_seen' = stop_seen \cup {t \in Threads : Running(t)}
    /\ beeps_left' = [t \in Threads |->
                         IF Running(t) /\ t \notin stop_seen
                         THEN (IF tpc[t] = "emit" THEN 2 - t_index[t] ELSE 0)
                         ELSE beeps_left[t]]
    /\ UNCHANGED <<stop_event, beep_thread, tpc, t_index, t_event>>
    /\ UNCHANGED <<codecVars, cipherVars, batchVars>>

\* stop_success_beep, lines 316-317.
StopClear ==
    /\ apc = "stop_clear"
    /\ stop_event' = 0
    /\ beep_thread' = 0
    /\ apc' = "idle"
    /\ UNCHANGED <<beep_enabled, event_set, tpc, t_index, t_event>>
    /\ UNCHANGED beepGhostVars
    /\ UNCHANGED <<codecVars, cipherVars, batchVars>>

\* _emit_beeps(2, spacing=1.5), lines 246-270: one beep under _write_lock,
\* then the sleep if another beep follows.  beeps_left counts down the beeps
\* a stopped thread may still emit, and stays at -1 once it emitted one more.
EmitBeep(t) ==
    /\ tpc[t] = "emit"
    /\ IF t_index[t] + 1 < 2
       THEN /\ t_index' = [t_index EXCEPT ![t] = @ + 1]
            /\ UNCHANGED tpc
       ELSE /\ t_index' = [t_index EXCEPT ![t] = 0]
            /\ tpc' = [tpc EXCEPT ![t] = "check"]
    /\ beeps_left' = IF t \in stop_seen /\ beeps_left[t] >= 0
                     THEN [beeps_left EXCEPT ![t] = @ - 1]
                     ELSE beeps_left
    /\ UNCHANGED <<beep_enabled, stop_event, beep_thread, event_set, t_event, apc,
                   stop_seen>>
    /\ UNCHANGED <<codecVars, cipherVars, batchVars>>

\* Line 295, the load of the global _success_beep_stop_event: None has no
\* attribute wait, and the AttributeError ends the thread.
LoadStopEvent(t) ==
    /\ tpc[t] = "check"
    /\ IF stop_event = 0
       THEN /\ tpc' = [tpc EXCEPT ![t] = "died"]
            /\ UNCHANGED t_event
       ELSE /\ tpc' = [tpc EXCEPT ![t] = "wait"]
            /\ t_event' = [t_event EXCEPT ![t] = stop_event]
    /\ UNCHANGED <<beep_enabled, stop_event, beep_thread, event_set, t_index, apc>>
    /\ UNCHANGED beepGhostVars
    /\ UNCHANGED <<codecVars, cipherVars, batchVars>>

\* Lines 295-296: wait(10) returns True when the event is set, and the loop
\* is left; it returns False after 10 s otherwise, and the loop goes round.
WaitReturns(t) ==
    /\ tpc[t] = "wait"
    /\ tpc' = [tpc EXCEPT ![t] = IF event_set[t_event[t]] THEN "left" ELSE "emit"]
    /\ UNCHANGED <<beep_enabled, stop_event, beep_thread, event_set, t_index, t_event,
                   apc>>
    /\ UNCHANGED beepGhostVars
    /\ UNCHANGED <<codecVars, cipherVars, batchVars>>

\* A step of the thread t.
BeepLoop(t) == EmitBeep(t) \/ LoadStopEvent(t) \/ WaitReturns(t)

NextBeep ==
    \/ EnableBeep
    \/ StartSuccessBeep
    \/ StopSignal
    \/ StopClear
    \/ \E t \in Threads : EmitBeep(t)
    \/ \E t \in Threads : LoadStopEvent(t)
    \/ \E t \in Threads : WaitReturns(t)

InitBeep == CodecIdle /\ CipherIdle /\ BatchIdle /\ BeepLoaded /\ apc = "idle"

\* Every started thread is scheduled again and again; the caller may stop
\* calling at any time.
SpecBeep ==
    /\ InitBeep
    /\ [][NextBeep]_vars
    /\ \A t \in Threads : WF_vars(BeepLoop(t))

\* C18: stop_success_beep stops the background alert: under every
\* interleaving of the caller with the beep loop, each thread that was
\* running when stop_success_beep was called eventually leaves its loop
\* through the stop check, without dying on an unhandled exception and
\* without looping on, and emits at most the rest of the two-beep burst in
\* progress, also when start_success_beep is called again afterwards.
C18_StopEndsEveryBeepLoop ==
    /\ [](\A t \in stop_seen : tpc[t] # "died" /\ beeps_left[t] >= 0)
    /\ \A t \in Threads : [](t \in stop_seen => <>(tpc[t] = "left"))


(***************************************************************************)
(* _aez_decrypt on every ciphertext length, checked under SpecCipher.      *)
(***************************************************************************)
\* C28: _aez_decrypt never raises, for any ciphertext length and tag
\* length tau >= 0: it returns None or a plaintext of exactly |C| - tau
\* bytes; a ciphertext shorter than tau, the empty one included, is
\* rejected with None; and every tag byte read is x[|C| - tau + i] with
\* that index inside the deciphered buffer, never an index counted from
\* the end.
C28_DecryptTotalOnEveryLength ==
    cpc \in {"decrypted", "rehashed"}
       => LET n == Len(dct)
          IN  /\ decrypted.result # IndexError
              /\ \/ decrypted.result = None
                 \/ Len(decrypted.result) = n - tau
              /\ n < tau => decrypted.result = None
              /\ n < tau => decrypted.reads = 0

(***************************************************************************)
(* The accumulator of mnemonic_to_bytes, checked under Spec.               *)
(***************************************************************************)
\* C29: while mnemonic_to_bytes runs on 24 words of the list, at every
\* step: once a word is consumed fewer than 8 bits stay buffered; the
\* accumulator holds only the buffered bits and never more than 18
\* significant bits, so it fits 64 bits; after w words floor(11w / 8) bytes
\* are written, never more than 33; every byte of the output is in 0..255;
\* and after the 24th word exactly 33 bytes are written and no bit is left.
C29_AccumulatorBounded ==
    pc \in {"mtb_word", "mtb_emit"}
       => /\ bits >= 0 /\ bits < Pow2(18)
          /\ bit_len >= 0 /\ bit_len <= 18 /\ bits < Pow2(bit_len)
          /\ pos <= EncipheredCipherSeedSize
          /\ Len(out) = EncipheredCipherSeedSize
          /\ \A k \in 1..Len(out) : out[k] \in 0..255
          /\ pc = "mtb_word"
                => /\ bit_len < 8
                   /\ pos = (BitsPerWord * w) \div 8
                   /\ bit_len = (BitsPerWord * w) % 8
          /\ pc = "mtb_emit"
                => pos * 8 + bit_len = BitsPerWord * (w + 1)
          /\ (pc = "mtb_word" /\ w = 24)
                => pos = EncipheredCipherSeedSize /\ bit_len = 0 /\ bits = 0

\* The 24th word is consumed, and one of the 33 bytes written is not zero.
C29_Witness ==
    /\ pc = "mtb_word" /\ w = 24
    /\ pos = 33 /\ bit_len = 0
    /\ \E k \in 1..33 : out[k] # 0

(***************************************************************************)
(* The number of beep loops, checked under SpecBeep.                       *)
(***************************************************************************)
\* C30: under every sequence of set_beep_on_find, start_success_beep and
\* stop_success_beep calls and every interleaving with the beep loop, at
\* most one thread is inside _beep_loop at any time: a thread is started
\* only when beeping is enabled and no thread is registered, and the thread
\* that stop_success_beep unregistered is no longer looping when the next
\* one starts.
C30_AtMostOneBeepLoop ==
    Cardinality({t \in Threads : Running(t)}) <= 1

(***************************************************************************)
(* The keyed state, checked under SpecCipher.                              *)
(***************************************************************************)
\* The 32-bit big-endian word n (from 0) of the extracted key k.
KeyWord(k, n) == SubSeq(k, 4 * n + 1, 4 * n + 4)

\* C26: after init(key), with k the key itself when it has 48 bytes and its
\* 48-byte BLAKE2b digest otherwise: I0 = k[0..16) and I1 = double(I0);
\* J0 = k[16..32), J1 = double(J0), J2 = double(J1); L0 = 0, L1 = k[32..48),
\* L2 = double(L1), L3 = L2 xor L1, L4 = double(L2), L5 = L4 xor L1,
\* L6 = double(L3), L7 = L6 xor L1, that is L_i = mult(i, L1) for i in 0..7;
\* the 10-round schedule is aes10_key[i] = w[i mod 12] for i in 0..39 and
\* the 4-round schedule is w[4..8), w[0..4), w[8..12) and four zero words,
\* w being the twelve big-endian words of k.
C26_KeyedState ==
    cpc \notin {"new", "reset"}
       => LET k == IF Len(akey) = 48 THEN akey ELSE blake2b(akey, 48)
              I == state.I
              J == state.J
              L == state.L
          IN  /\ Len(k) = 48
              /\ I[1] = SubSeq(k, 1, 16) /\ I[2] = double_block(I[1])
              /\ J[1] = SubSeq(k, 17, 32) /\ J[2] = double_block(J[1])
              /\ J[3] = double_block(J[2])
              /\ L[1] = ZERO_BLOCK /\ L[2] = SubSeq(k, 33, 48)
              /\ L[3] = double_block(L[2]) /\ L[4] = xor_bytes1x16(L[3], L[2])
              /\ L[5] = double_block(L[3]) /\ L[6] = xor_bytes1x16(L[5], L[2])
              /\ L[7] = double_block(L[4]) /\ L[8] = xor_bytes1x16(L[7], L[2])
              /\ \A i \in 0..7 : L[i + 1] = mult_block(i, L[2])
              /\ Len(state.aes.aes10_key) = 40
              /\ \A i \in 0..39 : state.aes.aes10_key[i + 1] = KeyWord(k, i % 12)
              /\ state.aes.aes4_key
                    = <<KeyWord(k, 4), KeyWord(k, 5), KeyWord(k, 6), KeyWord(k, 7),
                        KeyWord(k, 0), KeyWord(k, 1), KeyWord(k, 2), KeyWord(k, 3),
                        KeyWord(k, 8), KeyWord(k, 9), KeyWord(k, 10), KeyWord(k, 11),
                        ZeroWord, ZeroWord, ZeroWord, ZeroWord>>

\* A state keyed from a 32-byte key, which init extracts through BLAKE2b,
\* with a doubling that reduces (the top bit of L1 is set).
C26_Witness ==
    /\ cpc = "keyed"
    /\ Len(akey) = 32
    /\ state.I[1] = SubSeq(blake2b(akey, 48), 1, 16)
    /\ state.L[2][1] >= 128

(***************************************************************************)
(* The rounds of aez_tiny, checked under SpecCipher on the calls that      *)
(* encipher(delta, data) and decipher(delta, enciphered) make.             *)
(***************************************************************************)
\* The Feistel half-rounds among the AES4 calls of a run, in order.
FeistelRounds(run) == SelectSeq(run.trace, LAMBDA e : e.op \in {"L", "R"})

\* The whitening calls among them.
Whitenings(run) == SelectSeq(run.trace, LAMBDA e : e.op \notin {"L", "R"})

\* The number of half-rounds for an n-byte input.
TinyRounds(n) == IF n = 1 THEN 24 ELSE IF n = 2 THEN 16 ELSE IF n <= 15 THEN 10 ELSE 8

\* The two aez_tiny calls of the run, made again to read their AES4 calls.
EncipherRun == aez_tiny_run(state, delta, data, 0, Zeros(Len(data)))

DecipherRun == aez_tiny_run(state, delta, enciphered, 1, Zeros(Len(enciphered)))

\* Both calls have just been made.
TinyRan == cpc = "deciphered" /\ Len(data) < 32

\* C24: aez_tiny on n bytes, 1 <= n <= 31, makes exactly rounds(n) Feistel
\* half-rounds, 24 for n = 1, 16 for n = 2, 10 for 3..15 and 8 for 16..31,
\* updating L then R in turn, keyed with L7 for n < 16 and L6 otherwise; the
\* counters XORed into buf[15] are 0, 1, .., rounds - 1 in that order when
\* enciphering and rounds - 1, .., 1, 0 when deciphering, so each lies in
\* 0..rounds - 1 and decipher uses encipher's counters in reverse order.
C24_TinyRoundSchedule ==
    TinyRan
       => With(FeistelRounds(EncipherRun), LAMBDA enc :
          With(DecipherRun, LAMBDA run :
          With(FeistelRounds(run), LAMBDA dec :
          LET n == Len(data)
          IN  /\ Len(enc) = TinyRounds(n) /\ Len(dec) = TinyRounds(n)
              /\ \A p \in 1..TinyRounds(n) :
                    /\ enc[p].op = (IF p % 2 = 1 THEN "L" ELSE "R")
                    /\ dec[p].op = enc[p].op
                    /\ enc[p].key = (IF n < 16 THEN 7 ELSE 6)
                    /\ dec[p].key = enc[p].key
                    /\ enc[p].ctr = p - 1
                    /\ dec[p].ctr = TinyRounds(n) - p
                    /\ enc[p].ctr \in 0..(TinyRounds(n) - 1)
                    /\ dec[p].ctr = enc[TinyRounds(n) + 1 - p].ctr
              /\ deciphered = run.dst)))

\* A one-byte message went through its 24 rounds both ways.
C24_Witness ==
    /\ cpc = "deciphered"
    /\ Len(data) = 1
    /\ Len(FeistelRounds(DecipherRun)) = 24
    /\ FeistelRounds(DecipherRun)[1].ctr = 23
    /\ deciphered = data

\* The bit the whitening uses, for the bytes it is computed from.
WhitenBitOf(bytes) ==
    LET padded == bytes \o Zeros(BLOCK_SIZE - Len(bytes))
        forced == [padded EXCEPT ![1] = BitOr(padded[1], 128)]
    IN  BitAnd(AES4(state.aes, ZERO_BLOCK, state.I[2], state.L[4],
                    xor_bytes1x16(forced, delta))[1], 128)

\* C25: the whitening of the most significant bit is applied only for
\* n < 16, once per call: when deciphering, before the first Feistel round,
\* to L[0], with the bit computed from the unmodified input bytes (first
\* byte with its top bit forced, XORed with delta, through AES4(0, I1, L3));
\* when enciphering, after the halves are joined, to the first output byte,
\* with the bit computed the same way from the output bytes; for n from 16
\* to 31 neither direction whitens.
C25_WhiteningOncePerCall ==
    TinyRan
       => With(EncipherRun, LAMBDA enc :
          With(DecipherRun, LAMBDA dec :
          IF Len(data) >= 16
          THEN Whitenings(enc) = <<>> /\ Whitenings(dec) = <<>>
          ELSE /\ Len(Whitenings(enc)) = 1 /\ Len(Whitenings(dec)) = 1
               /\ dec.trace[1]
                     = [op |-> "whiten L[0]", ctr |-> -1, key |-> 3,
                        bit |-> WhitenBitOf(enciphered)]
               /\ enc.trace[Len(enc.trace)]
                     = [op |-> "whiten dst[0]", ctr |-> -1, key |-> 3,
                        bit |-> WhitenBitOf(enc.dst)]
               /\ enc.dst = enciphered))

\* A 15-byte message whose whitening bit was one in both directions.
C25_Witness ==
    /\ cpc = "deciphered"
    /\ Len(data) = 15
    /\ DecipherRun.trace[1].op = "whiten L[0]"
    /\ DecipherRun.trace[1].bit = 128
    /\ EncipherRun.trace[Len(EncipherRun.trace)].bit = 128
    /\ deciphered = data

(***************************************************************************)
(* The block walks on long inputs: aez_hash over a nonce and AD strings of *)
(* several blocks, aez_prf over several blocks, and the passes of aez_core *)
(* over several pairs.                                                     *)
(***************************************************************************)
\* Full 16-byte blocks in the long nonce and AD strings.
LongBlocks == 9

\* Full 16-byte blocks in the longest aez_prf output.
PrfBlocks == 257

\* 32-byte pairs the passes of aez_core walk in the longest message.
CorePairs == 9

LongString(n, f) == Bytes([i \in 1..n |-> (i * f + 5) % 256], n)

Nonces ==
    {None, <<>>, LongString(5, 3), LongString(BLOCK_SIZE, 7), LongString(17, 11),
     LongString(BLOCK_SIZE * 8, 13), LongString(BLOCK_SIZE * LongBlocks, 17),
     LongString(BLOCK_SIZE * LongBlocks + 3, 19)}

AdLists ==
    {<<>>,
     << <<>> >>,
     << <<0, 17, 34, 51, 68, 85>> >>,
     << LongString(BLOCK_SIZE, 23), LongString(BLOCK_SIZE * LongBlocks, 29) >>,
     << LongString(BLOCK_SIZE * LongBlocks + 7, 31), <<>>, LongString(32, 37) >>}

PrfLengths == {0, 1, 15, 16, 17, 32, 33, BLOCK_SIZE * PrfBlocks + 5}

CoreLengths ==
    {64, 32 * 8 + 32, 32 * CorePairs + 32, 32 * CorePairs + 32 + 5,
     32 * CorePairs + 32 + 17}

\* The inputs tried: each family varies its own argument.
BlockInputs ==
    {[nonce |-> n, ad_list |-> a, tau |-> CipherTextExpansion, data |-> <<1, 2, 3>>] :
        n \in Nonces, a \in AdLists}
    \cup {[nonce |-> None, ad_list |-> << <<0, 17, 34, 51, 68, 85>> >>, tau |-> t,
           data |-> <<1, 2, 3>>] : t \in PrfLengths}
    \cup {[nonce |-> None, ad_list |-> << <<0, 17, 34, 51, 68, 85>> >>,
           tau |-> CipherTextExpansion, data |-> Message(n, 1)] : n \in CoreLengths}

BlocksInit ==
    /\ akey \in CipherKeys
    /\ \E in \in BlockInputs :
          /\ nonce = in.nonce /\ ad_list = in.ad_list /\ tau = in.tau /\ data = in.data
    /\ cpc = "new"
    /\ state = AEZState
    /\ delta = Unset /\ enciphered = Unset /\ deciphered = Unset
    /\ dct = Unset /\ decrypted = Unset
    /\ prf_dst = Unset /\ prf_ctr = Unset /\ prf_off = 0 /\ prf_remaining = 0

\* What dst holds before the call, so that a byte the call leaves alone shows.
Untouched == 170

\* state.aez_prf(delta, tau, dst) is entered (lines 471-475), on a buffer of
\* tau bytes, as _aez_decrypt calls it, or of some more.
PrfEnter ==
    /\ cpc = "hashed"
    /\ \E extra \in {0, 5} :
          prf_dst' = Bytes([i \in 1..(tau + extra) |-> Untouched], tau + extra)
    /\ prf_ctr' = mk_block
    /\ prf_off' = 0
    /\ prf_remaining' = tau
    /\ cpc' = "prf_loop"
    /\ UNCHANGED <<akey, ad_list, tau, data, state, delta, enciphered, deciphered, dct,
                   decrypted, nonce>>
    /\ UNCHANGED <<codecVars, batchVars, beepVars>>

\* One pass of the while loop, lines 476-485: a full block is written and
\* the counter incremented.
PrfBlock ==
    /\ cpc = "prf_loop"
    /\ prf_remaining >= BLOCK_SIZE
    /\ prf_dst' = SliceAssign(prf_dst, prf_off, prf_off + BLOCK_SIZE,
                              AES10(state.aes, state.L[4],
                                    xor_bytes1x16(delta, prf_ctr)))
    /\ prf_ctr' = ctr_increment(prf_ctr, 15)
    /\ prf_off' = prf_off + BLOCK_SIZE
    /\ prf_remaining' = prf_remaining - BLOCK_SIZE
    /\ UNCHANGED <<akey, ad_list, tau, data, cpc, state, delta, enciphered, deciphered,
                   dct, decrypted, nonce>>
    /\ UNCHANGED <<codecVars, batchVars, beepVars>>

\* The loop is left; lines 486-489 write the part of a block that remains.
PrfLast ==
    /\ cpc = "prf_loop"
    /\ prf_remaining < BLOCK_SIZE
    /\ prf_dst' = IF prf_remaining > 0
                  THEN SliceAssign(prf_dst, prf_off, prf_off + prf_remaining,
                                   Slice(AES10(state.aes, state.L[4],
                                               xor_bytes1x16(delta, prf_ctr)),
                                         0, prf_remaining))
                  ELSE prf_dst
    /\ cpc' = "prf_done"
    /\ UNCHANGED <<akey, ad_list, tau, data, state, delta, enciphered, deciphered, dct,
                   decrypted, nonce, prf_ctr, prf_off, prf_remaining>>
    /\ UNCHANGED <<codecVars, batchVars, beepVars>>

NextBlocks ==
    \/ StateReset
    \/ StateInit
    \/ Hash
    \/ PrfEnter
    \/ PrfBlock
    \/ PrfLast
    \/ Encipher
    \/ Decipher

InitBlocks == CodecIdle /\ BlocksInit /\ BatchIdle /\ BeepIdle

SpecBlocks == InitBlocks /\ [][NextBlocks]_vars

(***************************************************************************)
(* aez_prf, checked under SpecBlocks.                                      *)
(***************************************************************************)
\* The integer b, below 2^24, as a 16-byte big-endian counter.
BigEndian16(b) ==
    Bytes([i \in 1..BLOCK_SIZE |->
              IF i = 16 THEN b % 256
              ELSE IF i = 15 THEN (b \div 256) % 256
              ELSE IF i = 14 THEN (b \div 65536) % 256
              ELSE 0], BLOCK_SIZE)

\* Block b of the stream.
PrfStreamBlock(b) == AES10(state.aes, state.L[4], xor_bytes1x16(delta, BigEndian16(b)))

\* C27: aez_prf(delta, tau, dst) writes exactly the first tau bytes of dst
\* and nothing beyond: the 16-byte block b (from 0) is AES10(L3, delta xor
\* ctr_b), ctr_b being b as a 16-byte big-endian counter that starts at
\* zero and goes up by one per block, the carry going from byte 15 towards
\* byte 0 and the counter wrapping at 2^128; when tau is not a multiple of
\* 16 the last block is cut to tau mod 16 bytes.
C27_PrfStream ==
    /\ [](cpc \in {"prf_loop", "prf_done"}
             => /\ prf_off + prf_remaining = tau
                /\ prf_off % BLOCK_SIZE = 0
                /\ prf_ctr = BigEndian16(prf_off \div BLOCK_SIZE)
                /\ Len(prf_dst) >= tau
                /\ \A i \in 1..Len(prf_dst) :
                      (i > tau \/ (cpc = "prf_loop" /\ i > prf_off))
                         => prf_dst[i] = Untouched
                /\ ctr_increment(Bytes([i \in 1..BLOCK_SIZE |-> 255], BLOCK_SIZE), 15)
                      = mk_block
                /\ (cpc = "prf_done" /\ tau <= 48)
                      => prf_dst = aez_prf(state, delta, tau,
                                           Bytes([i \in 1..Len(prf_dst) |-> Untouched],
                                                 Len(prf_dst))))
    /\ [][(cpc = "prf_loop" /\ prf_off' # prf_off)
             => /\ prf_off' = prf_off + BLOCK_SIZE
                /\ prf_dst' = SubSeq(prf_dst, 1, prf_off)
                                 \o PrfStreamBlock(prf_off \div BLOCK_SIZE)
                                 \o SubSeq(prf_dst, prf_off + BLOCK_SIZE + 1, Len(prf_dst))]_vars
    /\ [][(cpc = "prf_loop" /\ cpc' = "prf_done")
             => /\ prf_remaining = tau % BLOCK_SIZE
                /\ prf_dst' = SubSeq(prf_dst, 1, prf_off)
                                 \o SubSeq(PrfStreamBlock(prf_off \div BLOCK_SIZE), 1,
                                           tau % BLOCK_SIZE)
                                 \o SubSeq(prf_dst, tau + 1, Len(prf_dst))]_vars

\* A stream of more than 256 blocks, whose counter carried into byte 14,
\* ended with a part of a block, in a buffer longer than tau.
C27_Witness ==
    /\ cpc = "prf_done"
    /\ tau > 256 * BLOCK_SIZE /\ tau % BLOCK_SIZE # 0
    /\ prf_ctr[15] = 1
    /\ Len(prf_dst) > tau
    /\ prf_dst[tau] # Untouched /\ prf_dst[tau + 1] = Untouched

(***************************************************************************)
(* aez_hash, checked under SpecBlocks.                                     *)
(***************************************************************************)
RECURSIVE DoubleTimes(_, _)
DoubleTimes(k, block) == IF k = 0 THEN block ELSE DoubleTimes(k - 1, double_block(block))

\* The XOR of AES4(J, double^e[i](I1), L[i mod 8], block i) over the full
\* blocks i, i+1, .. of str.
RECURSIVE BlockTerms(_, _, _, _)
BlockTerms(Jblk, str, e, i) ==
    IF BLOCK_SIZE * i > Len(str) THEN ZERO_BLOCK
    ELSE xor_bytes1x16(
             AES4(state.aes, Jblk, DoubleTimes(e[i], state.I[2]), state.L[(i % 8) + 1],
                  SubSeq(str, BLOCK_SIZE * (i - 1) + 1, BLOCK_SIZE * i)),
             BlockTerms(Jblk, str, e, i + 1))

\* The strings aez_hash walks, each with its J tweak: the nonce with J2 and
\* the k-th AD string (k from 0) with mult(5 + k, J0).
HashStrings ==
    <<[str |-> IF nonce = None THEN <<>> ELSE nonce, J |-> state.J[3]]>>
    \o [k \in 1..Len(ad_list) |->
           [str |-> ad_list[k], J |-> mult_block(5 + (k - 1), state.J[1])]]

\* What the walk over the full blocks of every string gives, block i being
\* absorbed under double^e[i](I1): the sum of the terms, and the offset of
\* the bytes that remain.
WalksAs(e) ==
    \A s \in 1..Len(HashStrings) :
       LET str == HashStrings[s].str
       IN  hash_blocks(state, HashStrings[s].J, str, 0, 1, state.I[2], ZERO_BLOCK)
              = [sum |-> BlockTerms(HashStrings[s].J, str, e, 1),
                 offset |-> BLOCK_SIZE * (Len(str) \div BLOCK_SIZE)]

BlockNumbers == 1..(LongBlocks + 2)

\* C21, as stated: in aez_hash's walk over the full 16-byte blocks of the
\* nonce and of each AD string, the counter i starts at 1 and goes up by
\* one per block, and I' (I1 at the start of each string) is doubled when
\* the incremented i is a multiple of 8, so that block i is absorbed as
\* AES4(J, double^floor(i / 8)(I1), L[i mod 8], block), with J = J2 for the
\* nonce and mult(5 + k, J0) for the k-th AD string.
C21_HashWalkDoublesAfterIncrement ==
    cpc = "hashed" => WalksAs([i \in BlockNumbers |-> i \div 8])

\* C21, amended: I' is doubled after the block whose number i is a multiple
\* of 8, before i is incremented, so that block i is absorbed as
\* AES4(J, double^floor((i - 1) / 8)(I1), L[i mod 8], block): blocks 1..8 of
\* a string are absorbed under I1 and block 9 under double(I1).
C21_HashWalkDoublesAfterEighthBlock ==
    cpc = "hashed" => WalksAs([i \in BlockNumbers |-> (i - 1) \div 8])

\* A nonce and an AD string of nine blocks or more were hashed.
C21_Witness ==
    /\ cpc = "hashed"
    /\ nonce # None /\ Len(nonce) >= 9 * BLOCK_SIZE
    /\ \E k \in 1..Len(ad_list) : Len(ad_list[k]) >= 9 * BLOCK_SIZE
    /\ WalksAs([i \in BlockNumbers |-> (i - 1) \div 8])

\* The bytes of str after its last full block, padded with 0x80 and zeros.
PaddedRemainder(str) ==
    LET rem == SubSeq(str, BLOCK_SIZE * (Len(str) \div BLOCK_SIZE) + 1, Len(str))
    IN  rem \o <<128>> \o Zeros(BLOCK_SIZE - 1 - Len(rem))

\* What one string adds to the sum: its full blocks as the walk gives them,
\* and the padded term when the string is empty or ends inside a block.
Absorbed(s) ==
    LET str == HashStrings[s].str
        walk == hash_blocks(state, HashStrings[s].J, str, 0, 1, state.I[2],
                            ZERO_BLOCK).sum
    IN  IF Len(str) = 0 \/ Len(str) % BLOCK_SIZE # 0
        THEN xor_bytes1x16(walk,
                           AES4(state.aes, HashStrings[s].J, state.I[1], state.L[1],
                                PaddedRemainder(str)))
        ELSE walk

RECURSIVE XorAbsorbed(_)
XorAbsorbed(s) ==
    IF s > Len(HashStrings) THEN ZERO_BLOCK
    ELSE xor_bytes1x16(Absorbed(s), XorAbsorbed(s + 1))

\* The term of the tag length, lines 411-413.
TauTerm ==
    AES4(state.aes, xor_bytes1x16(state.J[1], state.J[2]), state.I[2], state.L[2],
         Zeros(12) \o uint32_to_bytes(tau * 8))

\* C23: for the nonce and for each AD string aez_hash adds exactly one
\* padded term AES4(J, I0, L0, one_zero_pad(remainder)) when the string is
\* empty or its length is not a multiple of 16, and none when its length is
\* a positive multiple of 16; a nonce of None counts as empty and adds the
\* term of the block 0x80 0^15, an empty AD string adds that block's term
\* under its own J, and an empty AD list adds no AD term.
C23_OnePaddedTermPerString ==
    cpc = "hashed"
       => /\ delta = xor_bytes1x16(TauTerm, XorAbsorbed(1))
          /\ nonce \in {None, <<>>}
                => /\ PaddedRemainder(HashStrings[1].str) = <<128>> \o Zeros(15)
                   /\ delta = aez_hash(state, <<>>, ad_list, tau * 8)
                   /\ delta = aez_hash(state, None, ad_list, tau * 8)
          /\ ad_list = <<>> => delta = xor_bytes1x16(TauTerm, Absorbed(1))

\* A hash over no nonce, a string that ends inside a block, an empty string
\* and a string of two full blocks.
C23_Witness ==
    /\ cpc = "hashed"
    /\ nonce = None
    /\ Len(ad_list) = 3
    /\ Len(ad_list[1]) % BLOCK_SIZE # 0 /\ ad_list[2] = <<>>
    /\ Len(ad_list[3]) = 2 * BLOCK_SIZE
    /\ delta = xor_bytes1x16(TauTerm, XorAbsorbed(1))

(***************************************************************************)
(* The passes of aez_core, checked under SpecBlocks.                       *)
(***************************************************************************)
\* C22: in aez_core, pass 1 and pass 2 each make exactly initial / 32
\* iterations, numbered 1, 2, ..; iteration i of either pass uses the same
\* pair (I', L[i mod 8]); I' starts at I1 and is doubled once every 8
\* iterations, first after the eighth: iterations 1..8 use I1, 9..16 use
\* double(I1), and iteration i uses double^floor((i - 1) / 8)(I1).
C22_PassesDoubleAfterEighthIteration ==
    (cpc = "enciphered" /\ Len(data) >= 32)
       => With(aez_core_run(state, delta, data, 0, Zeros(Len(data))), LAMBDA run :
          LET initial_bytes == Len(data) - (Len(data) % 32) - 32
          IN  /\ enciphered = run.dst
              /\ Len(run.pass1) = initial_bytes \div 32
              /\ Len(run.pass2) = initial_bytes \div 32
              /\ \A i \in 1..(initial_bytes \div 32) :
                    /\ run.pass1[i].i = i
                    /\ run.pass2[i] = run.pass1[i]
                    /\ run.pass1[i].I_tmp = DoubleTimes((i - 1) \div 8, state.I[2]))

====
